---------------------------- MODULE Spec2Model ----------------------------
(***************************************************************************)
(* A model of the migration run of migrate-git-azure-devops: Execute       *)
(* (root.go) loads the repository list and checks the report formats,      *)
(* runNonInteractive or runWizard selects the candidates and migrateRepos  *)
(* drives every candidate through clone, create and push.                  *)
(*                                                                         *)
(* Strings that the code inspects character by character (list-file lines, *)
(* repository names, the filter) are sequences of one-character strings.   *)
(* The catalog service and git are the environment: every call to them is  *)
(* one step whose outcome (success or failure) is chosen nondeterministi-  *)
(* cally.                                                                  *)
(*                                                                         *)
(* Spec is one run under every way of selecting; SpecClient is one run     *)
(* under every answer of the catalog service, with and without trace;      *)
(* SpecRerun runs the same command line twice; SpecCtx lets the context of *)
(* the run expire at any point; SpecReport is one run under every list of  *)
(* report formats; SpecWizard is one run of the wizard; SpecSelection      *)
(* applies parseSelection to every short selection.                        *)
(***************************************************************************)
EXTENDS Integers, Sequences, FiniteSets, TLC

(***************************************************************************)
(* Bound of the model.                                                     *)
(***************************************************************************)
\* longest repository-list file, in lines
MaxLines == 2
\* longest selection typed at the wizard's prompt, in characters
MaxSel == 5
\* largest number of repositories listed at the wizard's prompt
MaxRepos == 2

(***************************************************************************)
(* The small universes the inputs are drawn from.                          *)
(***************************************************************************)
NameA == <<"a">>
NameAB == <<"a", "b">>
NameG == <<"g">>

\* names a source catalog may hold
SrcNames == {NameA, NameAB}
\* names the destination catalog may hold before the run
DstNames == {NameA, NameAB}
\* lines a repository-list file may hold: blank, comment, two catalog
\* names and a name that is in no catalog
FileLines == {<<" ">>, <<"#", "a">>, NameA, NameAB, NameG}
\* --filter values: none, unanchored literal, anchored literal, malformed
Filters == {<<>>, <<"a">>, <<"^", "a", "$">>, <<"(">>}

\* --report-format values: the two supported formats, one of them in upper
\* case, and a format that is not supported
FormatJson == <<"j", "s", "o", "n">>
FormatHtml == <<"h", "t", "m", "l">>
FormatJsonUpper == <<"J", "S", "O", "N">>
FormatXml == <<"x", "m", "l">>
\* --report-format lists: the flag's default (empty) and one format
NoFormats == {<<>>}
FormatLists ==
  {<<>>, <<FormatJson>>, <<FormatHtml>>, <<FormatJsonUpper>>, <<FormatXml>>,
   <<FormatHtml, FormatJson>>}

\* what the operator may type at the selection prompt: nothing, one index,
\* two indices out of order, a range, a letter, an index out of range
Selections ==
  {<<>>, <<"1">>, <<"2", ",", "1">>, <<" ", "1", "-", "2">>, <<"x">>,
   <<"1", ",", "3">>}
\* what the operator may type at a yes/no prompt
Typed == {<<>>, <<"n">>, <<"s">>, <<" ", "Y", "E", "S">>}
\* the letters of the names, in their order
Letters == <<"a", "b", "g">>

\* characters of a selection: digits, the two separators, blank, a letter
SelChars == {"1", "2", "-", ",", " ", "x"}

\* sequences over S of length at most n
SeqsUpTo(S, n) == UNION {[1..k -> S] : k \in 0..n}

\* sequences over S without repetition: the catalogs with names in S
DistinctSeqs(S) ==
  {s \in SeqsUpTo(S, Cardinality(S)) :
     \A x, y \in DOMAIN s : x # y => s[x] # s[y]}

\* the nil map of Go
NilMap == [n \in {} |-> <<>>]
\* Config.RepoMap values: nil, or "a" renamed to "ab"
RepoMaps == {NilMap, [n \in {NameA} |-> NameAB]}

(***************************************************************************)
(* String helpers of the Go standard library, as far as the code uses them.*)
(***************************************************************************)
IsSpace(c) == c \in {" ", "\t", "\r", "\n"}

RECURSIVE TrimLeft(_)
TrimLeft(s) ==
  IF s # <<>> /\ IsSpace(Head(s)) THEN TrimLeft(Tail(s)) ELSE s

RECURSIVE TrimRight(_)
TrimRight(s) ==
  IF s # <<>> /\ IsSpace(s[Len(s)])
  THEN TrimRight(SubSeq(s, 1, Len(s) - 1))
  ELSE s

\* strings.TrimSpace
TrimSpace(s) == TrimRight(TrimLeft(s))

\* strings.ToLower, on the letters the inputs use
ToLowerChar(c) ==
  CASE c = "J" -> "j" [] c = "S" -> "s" [] c = "O" -> "o" [] c = "N" -> "n"
    [] c = "Y" -> "y" [] c = "E" -> "e" [] c = "I" -> "i"
    [] OTHER -> c

ToLower(s) == [k \in DOMAIN s |-> ToLowerChar(s[k])]

\* the position of the first sep in s, or 0
RECURSIVE Index(_, _, _)
Index(s, sep, k) ==
  IF k > Len(s) THEN 0
  ELSE IF s[k] = sep THEN k
  ELSE Index(s, sep, k + 1)

\* strings.SplitN(s, sep, 2) for a one-character separator
SplitN2(s, sep) ==
  LET k == Index(s, sep, 1)
  IN  IF k = 0 THEN <<s>>
      ELSE <<SubSeq(s, 1, k - 1), SubSeq(s, k + 1, Len(s))>>

\* strings.Split(s, sep) for a one-character separator
RECURSIVE Split(_, _)
Split(s, sep) ==
  LET k == Index(s, sep, 1)
  IN  IF k = 0 THEN <<s>>
      ELSE <<SubSeq(s, 1, k - 1)>> \o Split(SubSeq(s, k + 1, Len(s)), sep)

\* strings.HasPrefix
HasPrefix(s, p) == Len(s) >= Len(p) /\ SubSeq(s, 1, Len(p)) = p

\* strings.Contains
Contains(s, p) ==
  \E k \in 0..(Len(s) - Len(p)) : SubSeq(s, k + 1, k + Len(p)) = p

(***************************************************************************)
(* regexp.Compile and Regexp.MatchString for the patterns of Filters: a   *)
(* literal, optionally anchored with ^ and $.  An unbalanced parenthesis   *)
(* does not compile.                                                       *)
(***************************************************************************)
CompileFails(p) ==
  Cardinality({k \in DOMAIN p : p[k] = "("}) #
  Cardinality({k \in DOMAIN p : p[k] = ")"})

AnchoredStart(p) == p # <<>> /\ Head(p) = "^"

AnchoredEnd(p) == p # <<>> /\ p[Len(p)] = "$"

Literal(p) ==
  SubSeq(p, IF AnchoredStart(p) THEN 2 ELSE 1,
            IF AnchoredEnd(p) THEN Len(p) - 1 ELSE Len(p))

MatchString(p, s) ==
  CASE AnchoredStart(p) /\ AnchoredEnd(p) -> s = Literal(p)
    [] AnchoredStart(p) -> HasPrefix(s, Literal(p))
    [] AnchoredEnd(p) ->
         Len(s) >= Len(Literal(p)) /\
         SubSeq(s, Len(s) - Len(Literal(p)) + 1, Len(s)) = Literal(p)
    [] OTHER -> Contains(s, Literal(p))

(***************************************************************************)
(* Data types.                                                             *)
(***************************************************************************)
\* a Repo as the catalog of the given side returns it
Repo(side, name) ==
  [Name |-> name, RemoteURL |-> <<"remote", side, name>>,
   WebURL |-> <<"web", side, name>>]

\* the zero Summary
ZeroSummary ==
  [Repo |-> <<>>, Action |-> "", Result |-> "", DstWebURL |-> <<>>,
   SrcWebURL |-> <<>>, DstClone |-> <<>>, ErrDetails |-> <<>>,
   HasRefStats |-> FALSE]

(***************************************************************************)
(* The catalog client (api.go): httpReq, getRepos, createRepo, redactToken. *)
(* A string the program formats is a sequence of tokens; an error value is *)
(* the sequence err.Error() yields, and Nil is the nil error.              *)
(***************************************************************************)
Digits == <<"0", "1", "2", "3", "4", "5", "6", "7", "8", "9">>

\* the %d verb
RECURSIVE Itoa(_)
Itoa(n) ==
  IF n < 10 THEN <<Digits[n + 1]>>
  ELSE Append(Itoa(n \div 10), Digits[(n % 10) + 1])

Nil == <<>>

\* http.StatusFound and http.StatusUnauthorized
StatusFound == 302

StatusUnauthorized == 401

\* what the transport hands to httpClient.Do: a response with its status
\* and body, or a network error (also the error of an expired context)
Answer(status, body) == [neterr |-> Nil, status |-> status, body |-> body]

Failed(err) == [neterr |-> err, status |-> 0, body |-> <<>>]

\* the bodies: the JSON the service encodes, or a page that is no JSON
JsonBody == <<"{json}">>

PageBody == <<"<page>">>

\* the answers of the service to the list call and to the create call
ListAnswers ==
  {Answer(s, b) : s \in {200, StatusFound, 307, 500},
                  b \in {JsonBody, PageBody}}
    \cup {Failed(<<"dial tcp: i/o timeout">>)}

CreateAnswers ==
  {Answer(201, JsonBody), Answer(StatusFound, PageBody),
   Answer(307, PageBody), Answer(500, PageBody),
   Failed(<<"dial tcp: i/o timeout">>)}

\* httpClient.Do with CheckRedirect returning http.ErrUseLastResponse: a
\* redirect answer is returned as it is, no second request is made
Do(answer) == answer

\* httpReq: <<data, code, err>>
HttpReq(answer) ==
  LET resp == Do(answer)
  IN  IF resp.neterr # Nil THEN <<(<<>>), 0, resp.neterr>>
      ELSE IF resp.status = StatusFound
      THEN <<resp.body, StatusUnauthorized,
             <<"authentication failed (received HTTP 302, ",
               "likely invalid or expired PAT)">>>>
      ELSE <<resp.body, resp.status, Nil>>

\* getRepos: the error it returns (Nil when resp.Value is returned)
GetRepos(answer) ==
  LET r == HttpReq(answer)
  IN  IF r[3] # Nil THEN r[3]
      ELSE IF r[2] < 200 \/ r[2] >= 300
      THEN <<"API error (HTTP ">> \o Itoa(r[2]) \o <<"): ">> \o r[1]
      ELSE IF r[1] # JsonBody
      THEN <<"invalid response: ", "invalid character '<'">>
      ELSE Nil

\* createRepo: the error it returns
CreateRepo(answer) ==
  LET r == HttpReq(answer)
  IN  IF r[3] # Nil THEN r[3]
      ELSE IF r[2] # 200 /\ r[2] # 201
      THEN <<"API error creating repo (HTTP ">> \o Itoa(r[2]) \o <<"): ">>
             \o r[1]
      ELSE Nil

\* the position of the first of the given tokens in s from position k on,
\* Len(s) + 1 when there is none
RECURSIVE IndexAny(_, _, _)
IndexAny(s, k, toks) ==
  IF k > Len(s) THEN Len(s) + 1
  ELSE IF s[k] \in toks THEN k
  ELSE IndexAny(s, k + 1, toks)

\* the authority of a URL: what follows the scheme up to the first "/", "?"
\* or "#"
Authority(s) == SubSeq(s, 2, IndexAny(s, 2, {"/", "?", "#"}) - 1)

\* url.Parse fails: the authority has no userinfo left, so that "user:..."
\* is read as host:port with a port that is no number
ParseFails(s) ==
  LET a == Authority(s)
  IN  IndexAny(a, 1, {"@"}) > Len(a) /\ IndexAny(a, 1, {":"}) <= Len(a)

\* redactToken
RedactToken(s) ==
  IF s = <<>> THEN <<>>
  ELSE IF ParseFails(s) THEN s
  ELSE LET ats == {k \in 2..(Len(Authority(s)) + 1) : s[k] = "@"}
       IN  IF ats # {}
           THEN LET at == CHOOSE k \in ats : \A j \in ats : j <= k
                IN  <<s[1], "user", ":", "***">> \o SubSeq(s, at, Len(s))
           ELSE s

(***************************************************************************)
(* parseSelection (utils.go): "1,3-5" to sorted zero-based indices.        *)
(***************************************************************************)
IsDigit(c) == \E k \in DOMAIN Digits : Digits[k] = c

DigitVal(c) == (CHOOSE k \in DOMAIN Digits : Digits[k] = c) - 1

\* the value of a run of digits
RECURSIVE Decimal(_, _)
Decimal(s, acc) ==
  IF s = <<>> THEN acc
  ELSE Decimal(Tail(s), (acc * 10) + DigitVal(Head(s)))

\* strconv.Atoi: an optional sign, then digits only
Atoi(s) ==
  LET signed == s # <<>> /\ s[1] \in {"+", "-"}
      body == IF signed THEN Tail(s) ELSE s
  IN  IF body = <<>> \/ \E k \in DOMAIN body : ~IsDigit(body[k])
      THEN [err |-> TRUE, n |-> 0]
      ELSE [err |-> FALSE,
            n |-> IF signed /\ s[1] = "-" THEN 0 - Decimal(body, 0)
                  ELSE Decimal(body, 0)]

\* if !seen[n] { *out = append(*out, n); seen[n] = true }
AddIndex(n, acc) ==
  IF n \in acc.seen THEN acc
  ELSE [acc EXCEPT !.out = Append(@, n), !.seen = @ \cup {n}]

\* for i := a; i <= b; i++
RECURSIVE AddRange(_, _, _)
AddRange(a, b, acc) ==
  IF a > b THEN acc ELSE AddRange(a + 1, b, AddIndex(a - 1, acc))

\* parseElement: acc holds the seen set, the out slice and the error
ParseElement(p, max, acc) ==
  LET element == TrimSpace(p)
  IN  IF element = <<>> THEN acc
      ELSE IF Contains(element, <<"-">>)
      THEN LET bits == SplitN2(element, "-")
               a == Atoi(TrimSpace(bits[1]))
               b == Atoi(TrimSpace(bits[2]))
           IN  IF \/ Len(bits) # 2
                  \/ a.err \/ b.err \/ a.n < 1 \/ b.n < 1
                  \/ a.n > b.n \/ a.n > max \/ b.n > max
               THEN [acc EXCEPT !.err = <<"intervallo non valido: ">> \o
                                        element]
               ELSE AddRange(a.n, b.n, acc)
      ELSE LET n == Atoi(element)
           IN  IF n.err \/ n.n < 1 \/ n.n > max
               THEN [acc EXCEPT !.err = <<"indice non valido: ">> \o element]
               ELSE AddIndex(n.n - 1, acc)

\* the loop over the parts, left at the first error
RECURSIVE ParseParts(_, _, _)
ParseParts(parts, max, acc) ==
  IF parts = <<>> THEN acc
  ELSE LET next == ParseElement(Head(parts), max, acc)
       IN  IF next.err # Nil THEN next
           ELSE ParseParts(Tail(parts), max, next)

\* a slip: the indices are returned in the order in which they were typed
SortIntsSkipped(s) == s

\* sort.Ints
RECURSIVE SortInts(_)
SortInts(s) ==
  IF s = <<>> THEN <<>>
  ELSE LET k == CHOOSE j \in DOMAIN s : \A l \in DOMAIN s : s[j] <= s[l]
       IN  <<s[k]>> \o
           SortInts(SubSeq(s, 1, k - 1) \o SubSeq(s, k + 1, Len(s)))

\* parseSelection: the indices and the error it returns
ParseSelection(sel, max) ==
  LET acc == ParseParts(Split(sel, ","), max,
                        [seen |-> {}, out |-> <<>>, err |-> Nil])
  IN  IF acc.err # Nil THEN [idx |-> <<>>, err |-> acc.err]
      ELSE [idx |-> SortInts(acc.out), err |-> Nil]

VARIABLES
  cfg,           \* Config: Filter, RepoList, RepoMap, DryRun, ForcePush,
                 \* Trace, SrcPAT, DstPAT, ReportFormats, Wizard
  repoListPath,  \* TRUE when --repo-list names a file
  svc,           \* the answers the catalog service gives: list and create
  fileLines,     \* the lines of that file (strings.Split yields at least one)
  srcCatalog,    \* the source catalog held by the service (a sequence)
  dstCatalog,    \* the names in the destination catalog held by the service
  dstAtStart,    \* the destination catalog before the run (history)
  pc,            \* the position of the run
  exitCode,      \* -1 while running, then the exit status
  srcRepos,      \* runNonInteractive: the fetched source list
  selected,      \* runNonInteractive: the candidates
  preSummary,    \* runNonInteractive: the rows of the names not found
  dstExists,     \* the names the existence map holds as true
  tmpDir,        \* "none", "created" or "removed"
  workspace,     \* the repository names whose mirror directory is populated
  i,             \* migrateRepos: the index of the current candidate (from 1)
  dstRepoName,   \* migrateRepos: the destination name of the current one
  origExists,    \* migrateRepos: origExists of the current candidate
  sum,           \* migrateRepos: the Summary being filled
  results,       \* migrateRepos: the results slice
  migSummary,    \* what migrateRepos returned
  migErr,        \* TRUE when migrateRepos returned an error
  summary,       \* the rows handed to printSummary
  printed,       \* TRUE once printSummary has run
  report,        \* the Report values handed to generateAndSaveReport
  ops,           \* every call to git / createRepo made so far (history)
  snap,          \* the existence recorded at the start of each request
  out,           \* the lines written to the operator that carry a value
  api,           \* every exchange with the catalog service (history)
  ctx,           \* the run-scoped context: live or done, and when it fired
  runs,          \* what the earlier runs of the same migration returned
  wiz,           \* runWizard: what the operator typed and what was asked
  parse          \* one call of parseSelection: arguments and results

vars ==
  <<cfg, repoListPath, svc, fileLines, srcCatalog, dstCatalog, dstAtStart, pc,
    exitCode, srcRepos, selected, preSummary, dstExists, tmpDir, workspace,
    i, dstRepoName, origExists, sum, results, migSummary, migErr, summary,
    printed, report, ops, snap, out, api, ctx, runs, wiz,
    parse>>

\* the variables of the environment and of the configuration
envVars == <<repoListPath, svc, fileLines, srcCatalog, dstAtStart>>

\* the local variables of runNonInteractive
runVars == <<srcRepos, selected, preSummary, summary, printed, report>>

\* the local variables of migrateRepos
migVars == <<i, dstRepoName, origExists, sum, results>>

\* the context, the earlier runs, the operator's answers and the call of
\* parseSelection, which no step of a non-interactive run changes
auxVars == <<ctx, runs, wiz, parse>>

\* the access tokens: SRC_PAT and DST_PAT, trimmed and not empty
SrcPATs == {<<"s3cr3t">>, <<"s3", "#", "t">>}

DstPATs == {<<"d5t">>}

\* the context before its deadline
Background == [done |-> FALSE, pc |-> "", started |-> 0, calls |-> 0]

\* the operator has typed nothing and has been asked nothing
NoWizard == [selection |-> <<>>, force |-> <<>>, confirm |-> <<>>,
             asked |-> {}, forcePush |-> FALSE]

\* no call of parseSelection is under way
NoParse == [sel |-> <<>>, max |-> 0, pc |-> "", idx |-> <<>>, err |-> Nil]

\* the state in which Execute starts, for the given command lines
Start(listPaths, filters, repoMaps, traces, srcPATs, answers, formats, modes) ==
  /\ repoListPath \in listPaths
  /\ svc = answers
  /\ fileLines \in (IF repoListPath
                    THEN SeqsUpTo(FileLines, MaxLines) \ {<<>>}
                    ELSE {<<>>})
  /\ cfg \in [Filter : filters, RepoList : {<<>>}, RepoMap : repoMaps,
              DryRun : BOOLEAN, ForcePush : BOOLEAN, Trace : traces,
              SrcPAT : srcPATs, DstPAT : DstPATs, ReportFormats : formats,
              Wizard : modes]
  /\ srcCatalog \in DistinctSeqs(SrcNames)
  /\ dstCatalog \in SUBSET DstNames
  /\ dstAtStart = dstCatalog
  /\ pc = "Execute"
  /\ exitCode = -1
  /\ srcRepos = <<>>
  /\ selected = <<>>
  /\ preSummary = <<>>
  /\ dstExists = {}
  /\ tmpDir = "none"
  /\ workspace = {}
  /\ i = 0
  /\ dstRepoName = <<>>
  /\ origExists = FALSE
  /\ sum = ZeroSummary
  /\ results = <<>>
  /\ migSummary = <<>>
  /\ migErr = FALSE
  /\ summary = <<>>
  /\ printed = FALSE
  /\ report = <<>>
  /\ ops = <<>>
  /\ snap = <<>>
  /\ out = <<>>
  /\ api = <<>>
  /\ ctx = Background
  /\ runs = <<>>
  /\ wiz = NoWizard
  /\ parse = NoParse

\* trace off and a well-formed token, every way of selecting
Init ==
  Start(BOOLEAN, Filters, RepoMaps, {FALSE}, {<<"s3cr3t">>},
        [list |-> {Answer(200, JsonBody), Answer(500, PageBody)},
         create |-> {Answer(201, JsonBody), Answer(500, PageBody)}],
        NoFormats, {FALSE})

\* the catalog client under every answer, with and without trace, with a
\* token that url.Parse accepts and one that it rejects
InitClient ==
  Start({FALSE}, {<<>>, <<"a">>}, {NilMap}, BOOLEAN, SrcPATs,
        [list |-> ListAnswers, create |-> CreateAnswers], NoFormats,
        {FALSE})

(***************************************************************************)
(* Execute (root.go): load the repository list and dispatch.               *)
(***************************************************************************)
\* the loop over the lines of the --repo-list file
RECURSIVE LoadRepoList(_, _)
LoadRepoList(lines, acc) ==
  IF lines = <<>> THEN acc
  ELSE LET ln == TrimSpace(Head(lines))
       IN  LoadRepoList(Tail(lines),
                        IF ln # <<>> /\ ~HasPrefix(ln, <<"#">>)
                        THEN Append(acc, ln) ELSE acc)

\* the run ends with the given exit status
Exit(code) == exitCode' = code /\ pc' = "done"

\* the context has been cancelled or its deadline has passed
DeadlineExceeded == <<"context deadline exceeded">>

\* what httpClient.Do can get for a request made with the context
Answers(answers) ==
  IF ctx.done THEN {Failed(DeadlineExceeded)} ELSE answers

\* the record of one exchange with the catalog service
Exchange(call, answer, err) == [call |-> call, answer |-> answer, err |-> err]

\* the line httpReq writes in trace mode
TraceReq(method, side) ==
  IF cfg.Trace
  THEN <<(<<"[TRACE]", method, "https://", "dev.azure.com", "/", side>>)>>
  ELSE <<>>

\* the lines written for an error value, the second in trace mode only
ErrorLines(prefix, err) ==
  <<(<<prefix>> \o err)>> \o
  (IF cfg.Trace THEN <<(<<"[TRACE] Error details: ">> \o err)>> ELSE <<>>)

\* supported[strings.ToLower(f)]
Supported(f) == ToLower(f) \in {FormatJson, FormatHtml}

\* the formats that the validation loop refuses, in the order of the flag
Unsupported(formats) == SelectSeq(formats, LAMBDA f : ~Supported(f))

Execute ==
  /\ pc = "Execute"
  /\ \/ /\ cfg' = [cfg EXCEPT !.RepoList =
                     IF repoListPath THEN LoadRepoList(fileLines, @) ELSE @]
        /\ IF Unsupported(cfg.ReportFormats) # <<>>
           THEN /\ Exit(1)
                /\ out' = Append(out,
                     <<"Errore:", "formato report non supportato: ">> \o
                     Head(Unsupported(cfg.ReportFormats)))
           ELSE /\ pc' = IF cfg.Wizard THEN "wizGetSrc" ELSE "getSrc"
                /\ UNCHANGED <<exitCode, out>>
     \/ \* os.ReadFile fails
        /\ repoListPath
        /\ Exit(1)
        /\ out' = Append(out, <<"Errore:", "errore leggendo --repo-list: ",
                                "no such file or directory">>)
        /\ UNCHANGED cfg
  /\ UNCHANGED <<envVars, dstCatalog, runVars, dstExists, tmpDir, workspace,
                 migVars, migSummary, migErr, ops, snap, api, auxVars>>

(***************************************************************************)
(* runNonInteractive: fetch the source catalog, select, fetch the          *)
(* destination catalog, migrate, aggregate.                                *)
(***************************************************************************)
GetSrcRepos ==
  /\ pc = "getSrc"
  /\ \E a \in Answers(svc.list) :
       LET err == GetRepos(a)
       IN  /\ api' = Append(api, Exchange("list source", a, err))
           /\ IF err = Nil
              THEN /\ srcRepos' = [k \in DOMAIN srcCatalog |->
                                     Repo("src", srcCatalog[k])]
                   /\ pc' = "select"
                   /\ out' = out \o TraceReq("GET", "src")
                   /\ UNCHANGED exitCode
              ELSE \* getRepos returns an error: os.Exit(1)
                   /\ Exit(1)
                   /\ out' = out \o TraceReq("GET", "src") \o
                        ErrorLines("[API ERROR] Call failed for source: ", err)
                   /\ UNCHANGED srcRepos
  /\ UNCHANGED <<cfg, envVars, dstCatalog, selected, preSummary, summary,
                 printed, report, dstExists, tmpDir, workspace, migVars,
                 migSummary, migErr, ops, snap, auxVars>>

\* srcSet: the map from name to Repo (a later entry overwrites an earlier)
SrcSet(repos) ==
  [n \in {repos[k].Name : k \in DOMAIN repos} |->
     repos[CHOOSE k \in DOMAIN repos :
             /\ repos[k].Name = n
             /\ \A j \in DOMAIN repos : repos[j].Name = n => j <= k]]

\* a slip: a name that is already a candidate is not added again
RECURSIVE SelectFromListDedup(_, _, _)
SelectFromListDedup(list, srcSet, acc) ==
  IF list = <<>> THEN acc
  ELSE LET nm == TrimSpace(Head(list))
       IN  SelectFromListDedup(Tail(list), srcSet,
             IF nm = <<>> THEN acc
             ELSE IF nm \in DOMAIN srcSet
             THEN IF \E k \in DOMAIN acc[1] : acc[1][k].Name = nm
                  THEN acc
                  ELSE <<Append(acc[1], srcSet[nm]), acc[2]>>
             ELSE <<acc[1],
                    Append(acc[2], [ZeroSummary EXCEPT
                                      !.Repo = nm,
                                      !.Result = "ERROR: source not found"])>>)

\* the loop over cfg.RepoList; acc is <<selected, preSummary>>
RECURSIVE SelectFromList(_, _, _)
SelectFromList(list, srcSet, acc) ==
  IF list = <<>> THEN acc
  ELSE LET nm == TrimSpace(Head(list))
       IN  SelectFromList(Tail(list), srcSet,
             IF nm = <<>> THEN acc
             ELSE IF nm \in DOMAIN srcSet
             THEN <<Append(acc[1], srcSet[nm]), acc[2]>>
             ELSE <<acc[1],
                    Append(acc[2], [ZeroSummary EXCEPT
                                      !.Repo = nm,
                                      !.Result = "ERROR: source not found"])>>)

\* a slip: a name is kept only when the filter matches the whole of it
RECURSIVE SelectByFilterFullMatch(_, _, _)
SelectByFilterFullMatch(repos, filter, acc) ==
  IF repos = <<>> THEN acc
  ELSE SelectByFilterFullMatch(Tail(repos), filter,
                      IF Head(repos).Name = Literal(filter)
                      THEN Append(acc, Head(repos)) ELSE acc)

\* the loop over srcRepos that keeps the names the filter matches
RECURSIVE SelectByFilter(_, _, _)
SelectByFilter(repos, filter, acc) ==
  IF repos = <<>> THEN acc
  ELSE SelectByFilter(Tail(repos), filter,
                      IF MatchString(filter, Head(repos).Name)
                      THEN Append(acc, Head(repos)) ELSE acc)

\* a slip: the filter is consulted before the list
SelectionFilterFirst ==
  IF cfg.Filter # <<>> /\ ~CompileFails(cfg.Filter)
  THEN <<SelectByFilter(srcRepos, cfg.Filter, <<>>), <<>>>>
  ELSE IF Len(cfg.RepoList) > 0
  THEN SelectFromList(cfg.RepoList, SrcSet(srcRepos), <<(<<>>), (<<>>)>>)
  ELSE <<srcRepos, <<>>>>

\* <<selected, preSummary>> as lines 277-310 compute them
Selection ==
  IF Len(cfg.RepoList) > 0
  THEN SelectFromList(cfg.RepoList, SrcSet(srcRepos), <<(<<>>), (<<>>)>>)
  ELSE IF cfg.Filter # <<>>
  THEN <<SelectByFilter(srcRepos, cfg.Filter, <<>>), <<>>>>
  ELSE <<srcRepos, <<>>>>

\* regexp.Compile is reached and fails
InvalidRegex ==
  Len(cfg.RepoList) = 0 /\ cfg.Filter # <<>> /\ CompileFails(cfg.Filter)

\* a slip: an empty selection goes on to the destination and the batch
SelectNoShortCircuit ==
  /\ pc = "select"
  /\ IF InvalidRegex
     THEN /\ Exit(1)
          /\ out' = Append(out, <<"Errore:", "invalid regex: ",
                                  "error parsing regexp">>)
          /\ UNCHANGED <<selected, preSummary, summary, printed>>
     ELSE /\ selected' = Selection[1]
          /\ preSummary' = Selection[2]
          /\ pc' = "getDst"
          /\ UNCHANGED <<out, exitCode, summary, printed>>
  /\ UNCHANGED <<cfg, envVars, dstCatalog, srcRepos, report, dstExists,
                 tmpDir, workspace, migVars, migSummary, migErr, ops, snap,
                 api, auxVars>>

Select ==
  /\ pc = "select"
  /\ IF InvalidRegex
     THEN /\ Exit(1)
          /\ out' = Append(out, <<"Errore:", "invalid regex: ",
                                  "error parsing regexp">>)
          /\ UNCHANGED <<selected, preSummary, summary, printed>>
     ELSE /\ selected' = Selection[1]
          /\ preSummary' = Selection[2]
          /\ UNCHANGED out
          /\ IF Len(selected') = 0
             THEN /\ Exit(0)
                  /\ IF Len(preSummary') > 0
                     THEN summary' = preSummary' /\ printed' = TRUE
                     ELSE UNCHANGED <<summary, printed>>
             ELSE /\ pc' = "getDst"
                  /\ UNCHANGED <<exitCode, summary, printed>>
  /\ UNCHANGED <<cfg, envVars, dstCatalog, srcRepos, report, dstExists,
                 tmpDir, workspace, migVars, migSummary, migErr, ops, snap,
                 api, auxVars>>

\* a slip: a failed listing of the destination is taken for an empty catalog
GetDstReposIgnoreError ==
  /\ pc = "getDst"
  /\ \E a \in Answers(svc.list) :
       LET err == GetRepos(a)
       IN  /\ api' = Append(api, Exchange("list destination", a, err))
           /\ dstExists' = IF err = Nil THEN dstCatalog ELSE {}
           /\ pc' = "mkTmp"
           /\ out' = out \o TraceReq("GET", "dst") \o
                (IF err = Nil THEN <<>>
                 ELSE ErrorLines("[API ERROR] Call failed for destination: ",
                                 err))
           /\ UNCHANGED exitCode
  /\ UNCHANGED <<cfg, envVars, dstCatalog, runVars, tmpDir, workspace,
                 migVars, migSummary, migErr, ops, snap, auxVars>>

GetDstRepos ==
  /\ pc = "getDst"
  /\ \E a \in Answers(svc.list) :
       LET err == GetRepos(a)
       IN  /\ api' = Append(api, Exchange("list destination", a, err))
           /\ IF err = Nil
              THEN /\ dstExists' = dstCatalog
                   /\ pc' = "mkTmp"
                   /\ out' = out \o TraceReq("GET", "dst")
                   /\ UNCHANGED exitCode
              ELSE \* getRepos returns an error: os.Exit(1)
                   /\ Exit(1)
                   /\ out' = out \o TraceReq("GET", "dst") \o
                        ErrorLines("[API ERROR] Call failed for destination: ",
                                   err)
                   /\ UNCHANGED dstExists
  /\ UNCHANGED <<cfg, envVars, dstCatalog, runVars, tmpDir, workspace,
                 migVars, migSummary, migErr, ops, snap, auxVars>>

(***************************************************************************)
(* migrateRepos.                                                           *)
(***************************************************************************)
\* the forcePush argument of migrateRepos: runNonInteractive passes the
\* flag, runWizard its local forcePush
forcePush == IF cfg.Wizard THEN wiz.forcePush ELSE cfg.ForcePush

\* a slip: the remap table is not consulted
DstRepoNameUnmapped(name) == name

\* the destination name of a source repository
DstRepoName(name) ==
  IF name \in DOMAIN cfg.RepoMap THEN cfg.RepoMap[name] ELSE name

\* srcURL and dstURL: the clone URLs with the access token in the userinfo
SrcURL(name) ==
  <<"https://", "user", ":">> \o cfg.SrcPAT \o
  <<"@", "dev.azure.com", "/", "src", "/", "_git", "/">> \o name

DstURL(name) ==
  <<"https://", "user", ":">> \o cfg.DstPAT \o
  <<"@", "dev.azure.com", "/", "dst", "/", "_git", "/">> \o name

\* dstURLRedacted and sum.DstWebURL
DstURLRedacted(name) ==
  <<"https://", "user", ":", "***", "@", "dev.azure.com", "/", "dst", "/",
    "_git", "/">> \o name

DstWebURL(name) ==
  <<"https://", "dev.azure.com", "/", "dst", "/", "_git", "/">> \o name

\* the URL argument of a call to git
UrlArg(kind, name) ==
  CASE kind = "clone" -> SrcURL(name)
    [] kind = "push" -> DstURL(name)
    [] OTHER -> <<>>

\* the record of one call to git or to createRepo
Op(kind, req, name, ok, force) ==
  [op |-> kind, req |-> req, name |-> name, ok |-> ok, force |-> force,
   url |-> UrlArg(kind, name)]

\* the Summary a request starts with
NewSummary(r) ==
  [ZeroSummary EXCEPT !.Repo = r.Name,
                      !.SrcWebURL = r.WebURL,
                      !.DstClone = DstURLRedacted(DstRepoName(r.Name)),
                      !.DstWebURL = DstWebURL(DstRepoName(r.Name))]

\* a slip: an error result ends the loop (break instead of continue)
FinishBreakOnError(s) ==
  /\ sum' = s
  /\ results' = Append(results, s)
  /\ i' = IF s.ErrDetails # <<>> THEN Len(selected) + 1 ELSE i + 1
  /\ pc' = "loop"

\* a slip: the new row takes the place of the last one
FinishOverwriteLast(s) ==
  /\ sum' = s
  /\ results' = IF results = <<>> THEN <<s>>
                ELSE [results EXCEPT ![Len(results)] = s]
  /\ i' = i + 1
  /\ pc' = "loop"

\* results = append(results, sum); continue
Finish(s) ==
  /\ sum' = s
  /\ results' = Append(results, s)
  /\ i' = i + 1
  /\ pc' = "loop"

\* os.MkdirTemp, and the deferred os.RemoveAll being registered
MkdirTemp ==
  /\ pc = "mkTmp"
  /\ \/ /\ tmpDir' = "created"
        /\ results' = <<>>
        /\ i' = 1
        /\ pc' = "loop"
        /\ UNCHANGED <<migSummary, migErr>>
     \/ \* return nil, err
        /\ migSummary' = <<>>
        /\ migErr' = TRUE
        /\ pc' = "aggregate"
        /\ UNCHANGED <<tmpDir, results, i>>
  /\ UNCHANGED <<cfg, envVars, dstCatalog, exitCode, runVars, dstExists,
                 workspace, dstRepoName, origExists, sum, ops, snap, out, api,
                 auxVars>>

\* a slip: an existing destination is never skipped, the push is retried
SkipExistingNever(orig) == FALSE

\* a slip: the skip is taken in dry-run only
SkipExistingInDryRunOnly(orig) == orig /\ ~forcePush /\ cfg.DryRun

\* the test that skips clone and push
SkipExisting(orig) == orig /\ ~forcePush

\* the head of one iteration: names, URLs, origExists and the skip
RepoStart ==
  /\ pc = "loop"
  /\ i <= Len(selected)
  /\ LET r == selected[i]
         s0 == NewSummary(r)
         orig == DstRepoName(r.Name) \in dstExists
     IN  /\ dstRepoName' = DstRepoName(r.Name)
         /\ origExists' = orig
         /\ snap' = Append(snap, orig)
         /\ IF SkipExisting(orig)
            THEN Finish([s0 EXCEPT !.Result =
                           IF cfg.DryRun THEN "DRY-RUN"
                           ELSE "SKIPPED: repo already present"])
            ELSE /\ sum' = s0
                 /\ pc' = "clone"
                 /\ UNCHANGED <<results, i>>
  /\ UNCHANGED <<cfg, envVars, dstCatalog, exitCode, runVars, dstExists,
                 tmpDir, workspace, migSummary, migErr, ops, out, api,
                 auxVars>>

\* git clone --mirror refuses a target directory that is already populated
CloneMaySucceed(name) == name \notin workspace

\* getGitRefNames on the mirror that was just cloned: the error it returns
getGitRefNames(name) == Nil

\* a slip: the statistics are not attached to the Summary
RefStatsDropped(s, name) == s

\* the branch, tag and size statistics of the mirror, each attached when
\* its helper returns no error
RefStats(s, name) == [s EXCEPT !.HasRefStats = (getGitRefNames(name) = Nil)]

\* a slip: the error of a git command has an empty text
RunCmdErrEmpty(status) == <<>>

\* the deadline passed while the call now returning was in flight
InFlight == ctx.done /\ ctx.pc = pc /\ ctx.started = Len(snap)

\* the error of a git command: the process is killed by the context, or is
\* not started because the context is done, or git fails
RunCmdErr(status) ==
  IF InFlight THEN <<"signal: killed">>
  ELSE IF ctx.done THEN DeadlineExceeded
  ELSE <<"exit status ", status>>

\* mirror clone, then the branch, tag and size statistics
Clone ==
  /\ pc = "clone"
  /\ LET r == selected[i]
     IN  IF cfg.DryRun
         THEN /\ sum' = [sum EXCEPT !.Action = "DRY-RUN"]
              /\ out' = Append(out, <<"[DRY] git clone --mirror ">> \o
                                      RedactToken(SrcURL(r.Name)))
              /\ pc' = "create"
              /\ UNCHANGED <<results, i, workspace, ops>>
         ELSE \/ /\ ~ctx.done
                 /\ CloneMaySucceed(r.Name)
                 /\ ops' = Append(ops, Op("clone", i, r.Name, TRUE, FALSE))
                 /\ workspace' = workspace \cup {r.Name}
                 /\ sum' = RefStats(sum, r.Name)
                 /\ pc' = "create"
                 /\ UNCHANGED <<results, i, out>>
              \/ /\ ops' = Append(ops, Op("clone", i, r.Name, FALSE, FALSE))
                 /\ Finish([sum EXCEPT !.Result = "ERROR: source not found",
                                       !.ErrDetails = RunCmdErr("128")])
                 /\ UNCHANGED <<workspace, out>>
  /\ UNCHANGED <<cfg, envVars, dstCatalog, exitCode, runVars, dstExists,
                 tmpDir, dstRepoName, origExists, migSummary, migErr, snap,
                 api, auxVars>>

\* a slip: no repository is ever created
NeedsCreateNever == FALSE

\* a slip: the repository is created whether or not it is recorded
NeedsCreateEvenIfPresent == ~cfg.DryRun

\* a slip: the repository is created in dry-run too
NeedsCreateAlsoInDryRun == dstRepoName \notin dstExists

\* the test that guards createRepo
NeedsCreate == dstRepoName \notin dstExists /\ ~cfg.DryRun

\* a slip: entering the created repository clears the other entries
MarkCreatedCleared(name) == {name}

\* a slip: the created repository is not entered in the existence map
MarkCreatedForgotten(name) == dstExists

\* dstExists[dstRepoName] = true
MarkCreated(name) == dstExists \cup {name}

\* create the destination repository if it is missing
Create ==
  /\ pc = "create"
  /\ IF NeedsCreate
     THEN \E a \in Answers(svc.create) :
            LET err == CreateRepo(a)
            IN  /\ api' = Append(api, Exchange("create", a, err))
                /\ IF err = Nil
                   THEN /\ ops' = Append(ops, Op("create", i, dstRepoName,
                                                 TRUE, FALSE))
                        /\ dstCatalog' = dstCatalog \cup {dstRepoName}
                        /\ dstExists' = MarkCreated(dstRepoName)
                        /\ pc' = "push"
                        /\ out' = out \o TraceReq("POST", "dst")
                        /\ UNCHANGED <<sum, results, i>>
                   ELSE /\ ops' = Append(ops, Op("create", i, dstRepoName,
                                                 FALSE, FALSE))
                        /\ Finish([sum EXCEPT
                                     !.Result = "ERROR: destination creation",
                                     !.ErrDetails = err])
                        /\ out' = out \o TraceReq("POST", "dst") \o
                             ErrorLines("Error creating repo in destination: ",
                                        err)
                        /\ UNCHANGED <<dstCatalog, dstExists>>
     ELSE /\ pc' = "push"
          /\ out' = IF dstRepoName \notin dstExists /\ cfg.DryRun
                    THEN Append(out,
                           <<"[DRY] Would create repo in destination: ">> \o
                           dstRepoName)
                    ELSE out
          /\ UNCHANGED <<ops, dstCatalog, dstExists, sum, results, i, api>>
  /\ UNCHANGED <<cfg, envVars, exitCode, runVars, tmpDir, workspace,
                 dstRepoName, origExists, migSummary, migErr, snap, auxVars>>

\* a slip: the push never carries --force
PushForceDropped == FALSE

\* a slip: the existence map is read again after the create step
PushForceReread == dstRepoName \in dstExists /\ forcePush

\* the test that adds --force to the push
PushForce == origExists /\ forcePush

\* mirror push
Push ==
  /\ pc = "push"
  /\ IF dstRepoName \in dstExists
     THEN IF cfg.DryRun
          THEN /\ Finish([sum EXCEPT !.Result = "DRY-RUN"])
               /\ out' = Append(out,
                    (IF PushForce THEN <<"[DRY] git push --mirror --force ">>
                     ELSE <<"[DRY] git push --mirror ">>) \o
                    DstURLRedacted(dstRepoName))
               /\ UNCHANGED ops
          ELSE \/ /\ ~ctx.done
                  /\ ops' = Append(ops, Op("push", i, dstRepoName, TRUE,
                                           PushForce))
                  /\ Finish([sum EXCEPT !.Result = "OK"])
                  /\ UNCHANGED out
               \/ /\ ops' = Append(ops, Op("push", i, dstRepoName, FALSE,
                                           PushForce))
                  /\ Finish([sum EXCEPT !.Result = "ERROR: push",
                                        !.ErrDetails = RunCmdErr("1")])
                  /\ UNCHANGED out
     ELSE /\ Finish([sum EXCEPT !.Result = "SKIPPED: missing destination"])
          /\ UNCHANGED <<ops, out>>
  /\ UNCHANGED <<cfg, envVars, dstCatalog, exitCode, runVars, dstExists,
                 tmpDir, workspace, dstRepoName, origExists, migSummary,
                 migErr, snap, api, auxVars>>

\* a slip: the deferred removal is not registered
MigrateReturnNoRemove ==
  /\ pc = "loop"
  /\ i > Len(selected)
  /\ migSummary' = results
  /\ pc' = "aggregate"
  /\ UNCHANGED <<cfg, envVars, dstCatalog, exitCode, runVars, dstExists,
                 tmpDir, workspace, migVars, migErr, ops, snap, out, api,
                 auxVars>>

\* the loop is over: the deferred os.RemoveAll runs, results are returned
MigrateReturn ==
  /\ pc = "loop"
  /\ i > Len(selected)
  /\ \/ /\ tmpDir' = "removed"
        /\ workspace' = {}
        /\ UNCHANGED out
     \/ \* os.RemoveAll returns an error, which is printed
        /\ tmpDir' = "left"
        /\ out' = Append(out, <<"Error removing temporary directory:",
                                "permission denied">>)
        /\ UNCHANGED workspace
  /\ migSummary' = results
  /\ pc' = "aggregate"
  /\ UNCHANGED <<cfg, envVars, dstCatalog, exitCode, runVars, dstExists,
                 migVars, migErr, ops, snap, api, auxVars>>

\* os.WriteFile fails
WriteFailed == <<"permission denied">>

\* generateReport: the errors it can return for a format
GenerateReport(format) ==
  IF format = FormatJson \/ format = FormatHtml
  THEN {Nil, WriteFailed}
  ELSE {<<"formato report non supportato: ">> \o format}

\* generateAndSaveReport: the errors the loop over cfg.ReportFormats can
\* return; the loop stops at the first format that fails
RECURSIVE GenerateAndSaveReport(_)
GenerateAndSaveReport(formats) ==
  IF formats = <<>> THEN {Nil}
  ELSE (GenerateReport(Head(formats)) \ {Nil}) \cup
       (IF Nil \in GenerateReport(Head(formats))
        THEN GenerateAndSaveReport(Tail(formats))
        ELSE {})

\* the Report value built from the rows; the two times and the host name
\* are the locals read at the start and after migrateRepos
NewReport(all) ==
  [StartTime |-> "startTime", EndTime |-> "endTime", Hostname |-> "hostname",
   Summaries |-> all]

\* the report is built and handed over (cfg.ReportFormats is never nil: the
\* flag's default is an empty slice), and a failure is printed
HandOver(all, lines) ==
  /\ report' = Append(report, NewReport(all))
  /\ \E err \in GenerateAndSaveReport(cfg.ReportFormats) :
       out' = lines \o
              (IF err = Nil THEN <<>>
               ELSE <<(<<"Report generation error:">> \o err)>>)

\* the line printed when migrateRepos returned an error
MigrationError ==
  IF migErr THEN Append(out, <<"Migration error:", "mkdir">>) ELSE out

\* a slip: the migration rows are put before the not-found rows
AggregateMigrationFirst ==
  /\ pc = "aggregate"
  /\ summary' = migSummary \o preSummary
  /\ printed' = TRUE
  /\ HandOver(summary', MigrationError)
  /\ Exit(0)
  /\ UNCHANGED <<cfg, envVars, dstCatalog, srcRepos, selected, preSummary,
                 dstExists, tmpDir, workspace, migVars, migSummary, migErr,
                 ops, snap, api, auxVars>>

\* all := append(preSummary, migSummary...); printSummary(all)
Aggregate ==
  /\ pc = "aggregate"
  /\ summary' = preSummary \o migSummary
  /\ printed' = TRUE
  /\ HandOver(summary', MigrationError)
  /\ Exit(0)
  /\ UNCHANGED <<cfg, envVars, dstCatalog, srcRepos, selected, preSummary,
                 dstExists, tmpDir, workspace, migVars, migSummary, migErr,
                 ops, snap, api, auxVars>>

Next ==
  \/ Execute
  \/ GetSrcRepos
  \/ Select
  \/ GetDstRepos
  \/ MkdirTemp
  \/ RepoStart
  \/ Clone
  \/ Create
  \/ Push
  \/ MigrateReturn
  \/ Aggregate

Spec == Init /\ [][Next]_vars

\* the same command line is run a second time: a new process, the catalogs
\* as the first run left them
Rerun ==
  /\ pc = "done"
  /\ exitCode = 0
  /\ runs = <<>>
  /\ runs' = <<migSummary>>
  /\ cfg' = [cfg EXCEPT !.RepoList = <<>>]
  /\ dstAtStart' = dstCatalog
  /\ pc' = "Execute"
  /\ exitCode' = -1
  /\ srcRepos' = <<>>
  /\ selected' = <<>>
  /\ preSummary' = <<>>
  /\ dstExists' = {}
  /\ tmpDir' = "none"
  /\ workspace' = {}
  /\ i' = 0
  /\ dstRepoName' = <<>>
  /\ origExists' = FALSE
  /\ sum' = ZeroSummary
  /\ results' = <<>>
  /\ migSummary' = <<>>
  /\ migErr' = FALSE
  /\ summary' = <<>>
  /\ printed' = FALSE
  /\ report' = <<>>
  /\ ops' = <<>>
  /\ snap' = <<>>
  /\ out' = <<>>
  /\ api' = <<>>
  /\ UNCHANGED <<repoListPath, svc, fileLines, srcCatalog, dstCatalog, ctx,
                 wiz, parse>>

\* migrations selected by filter or taken whole, without a list file
InitBatch ==
  Start({FALSE}, {<<>>, <<"a">>}, RepoMaps, {FALSE}, {<<"s3cr3t">>},
        [list |-> {Answer(200, JsonBody), Answer(500, PageBody)},
         create |-> {Answer(201, JsonBody), Answer(500, PageBody)}],
        NoFormats, {FALSE})

NextRerun == Next \/ Rerun

\* a migration and its repetition
SpecRerun == InitBatch /\ [][NextRerun]_vars

\* the deadline of the context passes, or the context is cancelled
Deadline ==
  /\ ~ctx.done
  /\ pc # "done"
  /\ ctx' = [done |-> TRUE, pc |-> pc, started |-> Len(snap),
             calls |-> Len(ops)]
  /\ UNCHANGED <<cfg, envVars, dstCatalog, pc, exitCode, runVars, dstExists,
                 tmpDir, workspace, migVars, migSummary, migErr, ops, snap,
                 out, api, runs, wiz, parse>>

NextCtx == Next \/ Deadline

\* a migration whose context may expire at any point
SpecCtx == InitBatch /\ [][NextCtx]_vars

\* one run in which every step that can be taken is eventually taken: the
\* run is a single sequential process, and every external operation returns
SpecLive == InitBatch /\ [][Next]_vars /\ WF_vars(Next)

\* the same program, started in the states of InitClient
SpecClient == InitClient /\ [][Next]_vars

\* runs with a report requested: by list or whole catalog, every format list
InitReport ==
  Start(BOOLEAN, {<<>>}, {NilMap}, {FALSE}, {<<"s3cr3t">>},
        [list |-> {Answer(200, JsonBody), Answer(500, PageBody)},
         create |-> {Answer(201, JsonBody), Answer(500, PageBody)}],
        FormatLists, {FALSE})

\* the same program, started in the states of InitReport
SpecReport == InitReport /\ [][Next]_vars

(***************************************************************************)
(* runWizard: list the source, ask for the selection, list the             *)
(* destination, ask about force, ask for confirmation, migrate, report.    *)
(***************************************************************************)
\* the place of a letter in the alphabet
Rank(c) == CHOOSE k \in DOMAIN Letters : Letters[k] = ToLowerChar(c)

\* strings.ToLower(s) < strings.ToLower(t)
RECURSIVE LessFold(_, _)
LessFold(s, t) ==
  IF t = <<>> THEN FALSE
  ELSE IF s = <<>> THEN TRUE
  ELSE IF Rank(Head(s)) # Rank(Head(t)) THEN Rank(Head(s)) < Rank(Head(t))
  ELSE LessFold(Tail(s), Tail(t))

\* sort.Slice by lower-cased name (the names of a catalog are distinct)
RECURSIVE SortByName(_)
SortByName(repos) ==
  IF repos = <<>> THEN <<>>
  ELSE LET k == CHOOSE j \in DOMAIN repos :
                  \A l \in DOMAIN repos :
                    l # j => LessFold(repos[j].Name, repos[l].Name)
       IN  <<repos[k]>> \o
           SortByName(SubSeq(repos, 1, k - 1) \o
                      SubSeq(repos, k + 1, Len(repos)))

\* a slip: every answer but a refusal is taken for a yes
AffirmativeUnlessNo(ans) ==
  LET a == TrimSpace(ToLower(ans))
  IN  a # <<"n">> /\ a # <<"n", "o">>

\* ans == "s" || ans == "si" || ans == "y" || ans == "yes", trimmed and
\* lower-cased
Affirmative(ans) ==
  LET a == TrimSpace(ToLower(ans))
  IN  \/ a = <<"s">> \/ a = <<"s", "i">>
      \/ a = <<"y">> \/ a = <<"y", "e", "s">>

WizGetSrc ==
  /\ pc = "wizGetSrc"
  /\ \E a \in Answers(svc.list) :
       LET err == GetRepos(a)
       IN  /\ api' = Append(api, Exchange("list source", a, err))
           /\ IF err # Nil
              THEN \* getRepos returns an error: os.Exit(1)
                   /\ Exit(1)
                   /\ out' = out \o TraceReq("GET", "src") \o
                        ErrorLines("[API ERROR] Call failed for source: ", err)
                   /\ UNCHANGED srcRepos
              ELSE IF srcCatalog = <<>>
              THEN /\ Exit(1)
                   /\ out' = out \o TraceReq("GET", "src") \o
                        <<(<<"Errore:", "no repository found">>)>>
                   /\ UNCHANGED srcRepos
              ELSE /\ srcRepos' = SortByName([k \in DOMAIN srcCatalog |->
                                                Repo("src", srcCatalog[k])])
                   /\ pc' = "wizSelect"
                   /\ out' = out \o TraceReq("GET", "src")
                   /\ UNCHANGED exitCode
  /\ UNCHANGED <<cfg, envVars, dstCatalog, selected, preSummary, summary,
                 printed, report, dstExists, tmpDir, workspace, migVars,
                 migSummary, migErr, ops, snap, auxVars>>

\* the selection prompt: Enter selects all, otherwise parseSelection
WizSelect ==
  /\ pc = "wizSelect"
  /\ \E typed \in Selections :
       LET selection == TrimSpace(typed)
           r == ParseSelection(selection, Len(srcRepos))
       IN  /\ wiz' = [wiz EXCEPT !.selection = typed,
                                 !.asked = @ \cup {"selection"}]
           /\ IF selection = <<>>
              THEN /\ selected' = srcRepos
                   /\ pc' = "wizGetDst"
                   /\ UNCHANGED <<exitCode, out>>
              ELSE IF r.err # Nil
              THEN /\ Exit(1)
                   /\ out' = Append(out, <<"Errore:">> \o r.err)
                   /\ UNCHANGED selected
              ELSE /\ selected' = [k \in DOMAIN r.idx |->
                                     srcRepos[r.idx[k] + 1]]
                   /\ pc' = "wizGetDst"
                   /\ UNCHANGED <<exitCode, out>>
  /\ UNCHANGED <<cfg, envVars, dstCatalog, srcRepos, preSummary, summary,
                 printed, report, dstExists, tmpDir, workspace, migVars,
                 migSummary, migErr, ops, snap, api, ctx, runs, parse>>

WizGetDst ==
  /\ pc = "wizGetDst"
  /\ \E a \in Answers(svc.list) :
       LET err == GetRepos(a)
       IN  /\ api' = Append(api, Exchange("list destination", a, err))
           /\ IF err = Nil
              THEN /\ dstExists' = dstCatalog
                   /\ pc' = "wizForce"
                   /\ out' = out \o TraceReq("GET", "dst")
                   /\ UNCHANGED exitCode
              ELSE \* getRepos returns an error: os.Exit(1)
                   /\ Exit(1)
                   /\ out' = out \o TraceReq("GET", "dst") \o
                        ErrorLines("[API ERROR] Call failed for destination: ",
                                   err)
                   /\ UNCHANGED dstExists
  /\ UNCHANGED <<cfg, envVars, dstCatalog, runVars, tmpDir, workspace,
                 migVars, migSummary, migErr, ops, snap, auxVars>>

\* anyExists: exists[r.Name] for some selected r
AnyExists == \E k \in DOMAIN selected : selected[k].Name \in dstExists

\* the force prompt, asked when the flag is off and a selected name exists
WizForce ==
  /\ pc = "wizForce"
  /\ IF ~cfg.ForcePush /\ AnyExists
     THEN \E ans \in Typed :
            wiz' = [wiz EXCEPT !.force = ans,
                               !.asked = @ \cup {"force"},
                               !.forcePush = Affirmative(ans)]
     ELSE wiz' = [wiz EXCEPT !.forcePush = cfg.ForcePush]
  /\ pc' = "wizConfirm"
  /\ UNCHANGED <<cfg, envVars, dstCatalog, exitCode, runVars, dstExists,
                 tmpDir, workspace, migVars, migSummary, migErr, ops, snap,
                 out, api, ctx, runs, parse>>

\* the confirmation prompt: anything but a yes cancels
WizConfirm ==
  /\ pc = "wizConfirm"
  /\ \E ans \in Typed :
       /\ wiz' = [wiz EXCEPT !.confirm = ans,
                             !.asked = @ \cup {"confirm"}]
       /\ IF Affirmative(ans)
          THEN /\ pc' = "mkTmp"
               /\ UNCHANGED <<exitCode, out>>
          ELSE /\ Exit(0)
               /\ out' = Append(out, <<"Cancelled.">>)
  /\ UNCHANGED <<cfg, envVars, dstCatalog, runVars, dstExists, tmpDir,
                 workspace, migVars, migSummary, migErr, ops, snap, api, ctx,
                 runs, parse>>

\* printSummary(summary) and the report, after migrateRepos has returned
WizFinish ==
  /\ pc = "aggregate"
  /\ summary' = migSummary
  /\ printed' = TRUE
  /\ HandOver(summary', MigrationError)
  /\ Exit(0)
  /\ UNCHANGED <<cfg, envVars, dstCatalog, srcRepos, selected, preSummary,
                 dstExists, tmpDir, workspace, migVars, migSummary, migErr,
                 ops, snap, api, auxVars>>

\* the wizard on every catalog, with and without --force-push and --dry-run
InitWizard ==
  Start({FALSE}, {<<>>}, RepoMaps, {FALSE}, {<<"s3cr3t">>},
        [list |-> {Answer(200, JsonBody), Answer(500, PageBody)},
         create |-> {Answer(201, JsonBody), Answer(500, PageBody)}],
        NoFormats, {TRUE})

NextWizard ==
  \/ Execute
  \/ WizGetSrc
  \/ WizSelect
  \/ WizGetDst
  \/ WizForce
  \/ WizConfirm
  \/ MkdirTemp
  \/ RepoStart
  \/ Clone
  \/ Create
  \/ Push
  \/ MigrateReturn
  \/ WizFinish

\* one run of the wizard
SpecWizard == InitWizard /\ [][NextWizard]_vars

\* no run is under way: only the call of parseSelection has work to do
Idle ==
  /\ repoListPath = FALSE
  /\ svc = [list |-> {}, create |-> {}]
  /\ fileLines = <<>>
  /\ cfg = [Filter |-> <<>>, RepoList |-> <<>>, RepoMap |-> NilMap,
            DryRun |-> FALSE, ForcePush |-> FALSE, Trace |-> FALSE,
            SrcPAT |-> <<"s3cr3t">>, DstPAT |-> <<"d5t">>,
            ReportFormats |-> <<>>, Wizard |-> TRUE]
  /\ srcCatalog = <<>>
  /\ dstCatalog = {}
  /\ dstAtStart = {}
  /\ pc = "parseSelection"
  /\ exitCode = -1
  /\ srcRepos = <<>>
  /\ selected = <<>>
  /\ preSummary = <<>>
  /\ dstExists = {}
  /\ tmpDir = "none"
  /\ workspace = {}
  /\ i = 0
  /\ dstRepoName = <<>>
  /\ origExists = FALSE
  /\ sum = ZeroSummary
  /\ results = <<>>
  /\ migSummary = <<>>
  /\ migErr = FALSE
  /\ summary = <<>>
  /\ printed = FALSE
  /\ report = <<>>
  /\ ops = <<>>
  /\ snap = <<>>
  /\ out = <<>>
  /\ api = <<>>
  /\ ctx = Background
  /\ runs = <<>>
  /\ wiz = NoWizard

\* every selection of at most MaxSel characters, for every length of the
\* list of repositories up to MaxRepos
InitSelection ==
  /\ Idle
  /\ parse \in [sel : SeqsUpTo(SelChars, MaxSel), max : 0..MaxRepos,
                pc : {"call"}, idx : {<<>>}, err : {Nil}]

\* idx, err := parseSelection(sel, max)
CallParseSelection ==
  /\ parse.pc = "call"
  /\ parse' = [parse EXCEPT !.pc = "returned",
                            !.idx = ParseSelection(parse.sel, parse.max).idx,
                            !.err = ParseSelection(parse.sel, parse.max).err]
  /\ UNCHANGED <<cfg, envVars, dstCatalog, pc, exitCode, runVars, dstExists,
                 tmpDir, workspace, migVars, migSummary, migErr, ops, snap,
                 out, api, ctx, runs, wiz>>

NextSelection == CallParseSelection

\* parseSelection applied to every selection
SpecSelection == InitSelection /\ [][NextSelection]_vars

(***************************************************************************)
(* Vocabulary of the properties.                                           *)
(***************************************************************************)
\* the indices of the calls made for request j
OpsOf(j) == {k \in DOMAIN ops : ops[k].req = j}

\* request j made a call of the given kind with the given outcome
Called(j, kind, ok) ==
  \E k \in OpsOf(j) : ops[k].op = kind /\ ops[k].ok = ok

\* the repository names of a sequence of Summary rows
NamesOf(rows) == [k \in DOMAIN rows |-> rows[k].Repo]

\* the name is in the source catalog
InSrc(n) == \E k \in DOMAIN srcCatalog : srcCatalog[k] = n

NotInSrc(n) == ~InSrc(n)

\* migrateRepos has been entered and has acquired its workspace
Migrating == tmpDir # "none"

\* runNonInteractive has made its selection
SelectionDone ==
  \/ pc \in {"getDst", "mkTmp", "loop", "clone", "create", "push", "aggregate"}
  \/ pc = "done" /\ exitCode = 0

\* the run has ended normally after the orchestrator returned its results
Completed == pc = "done" /\ exitCode = 0 /\ Migrating

\* the candidates target pairwise distinct destination names
DistinctDst ==
  \A x, y \in DOMAIN selected :
    x # y => DstRepoName(selected[x].Name) # DstRepoName(selected[y].Name)

(***************************************************************************)
(* C1 - Force gating: a request whose destination the existence map        *)
(* records as existing when its processing begins, with forcePush off, is  *)
(* finished at once: no clone, create or push is ever called for it, and   *)
(* outside dry-run its result is "SKIPPED: repo already present".          *)
(***************************************************************************)
C1_ForceGating ==
  \A j \in DOMAIN snap :
    (snap[j] /\ ~forcePush) =>
      /\ OpsOf(j) = {}
      /\ j \in DOMAIN results
      /\ ~cfg.DryRun => results[j].Result = "SKIPPED: repo already present"

\* a finished batch in which one request was skipped that way while
\* another one was cloned
C1_Witness ==
  /\ Completed /\ ~forcePush /\ ~cfg.DryRun
  /\ \E j \in DOMAIN snap :
       snap[j] /\ results[j].Result = "SKIPPED: repo already present"
  /\ ops # <<>>

(***************************************************************************)
(* C2 - Force application: a mirror push carries --force exactly when the  *)
(* destination was recorded as existing at the start of its request and    *)
(* forcePush is set; the value is the one read before the request's own    *)
(* create step, so a request that created its destination pushes without   *)
(* force.                                                                  *)
(***************************************************************************)
C2_ForceApplication ==
  \A k \in DOMAIN ops :
    ops[k].op = "push" =>
      /\ ops[k].force = (snap[ops[k].req] /\ forcePush)
      /\ Called(ops[k].req, "create", TRUE) => ~ops[k].force

\* with forcePush set, one push went out forced and another, to a
\* destination its own request had just created, went out unforced
C2_Witness ==
  /\ forcePush
  /\ \E k \in DOMAIN ops : ops[k].op = "push" /\ ops[k].force
  /\ \E k \in DOMAIN ops :
       /\ ops[k].op = "push" /\ ~ops[k].force
       /\ Called(ops[k].req, "create", TRUE)

C4_DryRunObservational ==
  cfg.DryRun =>
    /\ ops = <<>>
    /\ dstCatalog = dstAtStart
    /\ Migrating => dstExists = dstAtStart

\* a finished dry-run over two candidates, one of them missing from the
\* destination
C4_Witness ==
  /\ cfg.DryRun /\ Completed
  /\ Len(results) = 2
  /\ \E j \in DOMAIN results : ~snap[j]

(***************************************************************************)
(* C5 - Dry-run result: in a dry-run batch every candidate's outcome has   *)
(* the result "DRY-RUN".                                                   *)
(***************************************************************************)
C5_DryRunResult ==
  cfg.DryRun => \A j \in DOMAIN results : results[j].Result = "DRY-RUN"

(***************************************************************************)
(* C6 - Failure isolation: with pairwise distinct destination names, a     *)
(* failed clone, create or push ends only its own request, with an ERROR   *)
(* result; every candidate is still processed, and the result of each is   *)
(* the one it gets when processed alone against the destination catalog of *)
(* before the run - it depends on no other request's success or failure.   *)
(***************************************************************************)
\* the result of request j processed alone, given the outcomes of its own
\* calls
ResultAlone(j) ==
  LET existed == DstRepoName(selected[j].Name) \in dstAtStart
  IN  CASE existed /\ ~forcePush ->
             IF cfg.DryRun THEN "DRY-RUN" ELSE "SKIPPED: repo already present"
        [] ~(existed /\ ~forcePush) /\ cfg.DryRun ->
             IF existed THEN "DRY-RUN" ELSE "SKIPPED: missing destination"
        [] OTHER ->
             IF Called(j, "clone", FALSE) THEN "ERROR: source not found"
             ELSE IF Called(j, "create", FALSE)
             THEN "ERROR: destination creation"
             ELSE IF Called(j, "push", FALSE) THEN "ERROR: push"
             ELSE "OK"

\* C6: every result is the request's own, failures end in ERROR rows, and
\* the batch processes every candidate
C6_FailureIsolation ==
  DistinctDst =>
    /\ \A j \in DOMAIN results :
         /\ results[j].Result = ResultAlone(j)
         /\ (\E k \in OpsOf(j) : ~ops[k].ok) =>
              results[j].Result \in {"ERROR: source not found",
                                     "ERROR: destination creation",
                                     "ERROR: push"}
    /\ (Migrating /\ pc \in {"aggregate", "done"}) =>
         Len(results) = Len(selected)

\* a finished batch of two candidates with distinct destinations: the
\* first failed, the second was migrated
C6_Witness ==
  /\ Completed /\ DistinctDst
  /\ Len(results) = 2
  /\ results[1].Result \in {"ERROR: source not found",
                            "ERROR: destination creation", "ERROR: push"}
  /\ results[2].Result = "OK"

(***************************************************************************)
(* C7 - Outcome count of an explicit list: a run that is given a list file *)
(* and ends normally reports as many outcomes as the file has lines that   *)
(* are neither blank nor comments - none when all of them are.  (Stated    *)
(* for the runs in which the orchestrator, if entered, got its workspace.) *)
(***************************************************************************)
\* the line holds a name: something else than white space, not led by #
IsNameLine(ln) ==
  \E k \in DOMAIN ln :
    /\ ~IsSpace(ln[k])
    /\ ln[k] # "#"
    /\ \A j \in 1..(k - 1) : IsSpace(ln[j])

NameLines == Cardinality({k \in DOMAIN fileLines : IsNameLine(fileLines[k])})

\* C7: the number of outcomes equals the number of name lines
C7_OutcomeCount ==
  (pc = "done" /\ exitCode = 0 /\ repoListPath /\ ~migErr) =>
    Len(summary) = NameLines

(***************************************************************************)
(* C8 - One outcome per request: whenever the orchestrator has been        *)
(* invoked and has returned, the sequence it returned is as long as the    *)
(* candidate list and its j-th row names the j-th candidate - also when    *)
(* the temporary workspace could not be acquired.                          *)
(***************************************************************************)
C8_OneOutcomePerRequest ==
  (pc = "aggregate" \/ (pc = "done" /\ (Migrating \/ migErr))) =>
    /\ Len(migSummary) = Len(selected)
    /\ \A j \in DOMAIN migSummary : migSummary[j].Repo = selected[j].Name

(***************************************************************************)
(* C9 - Outcome ordering: the printed batch result holds the "source not   *)
(* found" rows of the listed names first, in list order, and then the      *)
(* orchestrator's rows, which follow the order of selection: list order    *)
(* for a list, source catalog order for a filter or for neither.           *)
(***************************************************************************)
\* the candidates' names in the order of selection
ExpectedCandidates ==
  IF cfg.RepoList # <<>> THEN SelectSeq(cfg.RepoList, InSrc)
  ELSE IF cfg.Filter # <<>>
  THEN SelectSeq(srcCatalog, LAMBDA n : MatchString(cfg.Filter, n))
  ELSE srcCatalog

\* the listed names that the source catalog lacks, in list order
ExpectedNotFound == SelectSeq(cfg.RepoList, NotInSrc)

IsPrefix(s, t) == Len(s) <= Len(t) /\ s = SubSeq(t, 1, Len(s))

\* C9: not-found rows first, then the migration rows in selection order
C9_OutcomeOrdering ==
  /\ results # <<>> => IsPrefix(NamesOf(results), ExpectedCandidates)
  /\ printed =>
       /\ NamesOf(summary) = ExpectedNotFound \o NamesOf(migSummary)
       /\ migSummary = (IF Migrating THEN results ELSE <<>>)
       /\ Migrating => NamesOf(migSummary) = ExpectedCandidates

\* a printed result with a not-found row ahead of a migration row
C9_Witness ==
  /\ printed /\ Completed
  /\ Len(preSummary) = 1 /\ Len(migSummary) = 1
  /\ summary[1].Repo = NameG
  /\ cfg.RepoList[1] # NameG

(***************************************************************************)
(* C10 - Explicit-list selection: the candidates are the listed names that *)
(* the source catalog holds, in list order and as often as listed; every   *)
(* other listed name gets one "ERROR: source not found" row per listing    *)
(* and is never handed to the orchestrator, so that no clone, create or    *)
(* push is made for it.                                                    *)
(***************************************************************************)
\* how often the name is listed
Listed(n) == Cardinality({k \in DOMAIN cfg.RepoList : cfg.RepoList[k] = n})

\* C10: found names become candidates as listed, the others only rows
C10_ListSelection ==
  (cfg.RepoList # <<>> /\ SelectionDone) =>
    /\ [k \in DOMAIN selected |-> selected[k].Name] =
         SelectSeq(cfg.RepoList, InSrc)
    /\ NamesOf(preSummary) = ExpectedNotFound
    /\ \A k \in DOMAIN preSummary :
         preSummary[k].Result = "ERROR: source not found"
    /\ \A k \in DOMAIN ops :
         /\ InSrc(selected[ops[k].req].Name)
         /\ ops[k].op = "clone" => InSrc(ops[k].name)
    /\ printed =>
         \A n \in {cfg.RepoList[k] : k \in DOMAIN cfg.RepoList} :
           NotInSrc(n) =>
             Cardinality({k \in DOMAIN summary : summary[k].Repo = n}) =
               Listed(n)

\* a finished run over a list that names one repository twice
C10_Witness ==
  /\ Completed /\ printed
  /\ Len(cfg.RepoList) = 2 /\ cfg.RepoList[1] = cfg.RepoList[2]
  /\ Len(selected) = 2
  /\ ops # <<>>

(***************************************************************************)
(* C11  Filter selection.  With a filter and no list the candidates are    *)
(* exactly the entries of the source catalog whose name the filter         *)
(* matches, each once and in catalog order, so every outcome's name        *)
(* matches the filter; with neither filter nor list every entry of the     *)
(* source catalog is a candidate.                                          *)
(***************************************************************************)
\* the filter of the run matches the name
MatchesFilter(n) == MatchString(cfg.Filter, n)

\* the names of a sequence of Repo records
RepoNames(repos) == [k \in DOMAIN repos |-> repos[k].Name]

C11_FilterSelection ==
  (SelectionDone /\ cfg.RepoList = <<>>) =>
    /\ cfg.Filter # <<>> =>
         /\ RepoNames(selected) = SelectSeq(srcCatalog, MatchesFilter)
         /\ \A k \in DOMAIN results : MatchesFilter(results[k].Repo)
         /\ \A k \in DOMAIN summary : MatchesFilter(summary[k].Repo)
    /\ cfg.Filter = <<>> => RepoNames(selected) = srcCatalog

C11_Witness ==
  /\ Completed
  /\ cfg.RepoList = <<>>
  /\ cfg.Filter = <<"^", "a", "$">>
  /\ srcCatalog = <<NameAB, NameA>>
  /\ NamesOf(summary) = <<NameA>>

(***************************************************************************)
(* C12  Fatal errors.  When the filter that selects is no valid regular    *)
(* expression, or listing the source or the destination catalog fails, the *)
(* run ends with exit status 1, and up to then no workspace has been       *)
(* created, no clone, createRepo or push has been made and migrateRepos    *)
(* has produced no outcome.                                                *)
(***************************************************************************)
\* a listing of a catalog has returned an error
ListFailed ==
  \E k \in DOMAIN api :
    api[k].call \in {"list source", "list destination"} /\ api[k].err # Nil

\* the selection has been made or has failed
PastSelect == pc \notin {"Execute", "getSrc", "select"}

\* the filter is the one that selects, and it does not compile
BadFilter ==
  cfg.RepoList = <<>> /\ cfg.Filter # <<>> /\ CompileFails(cfg.Filter)

\* nothing has been done for any repository
NoRepoWork ==
  /\ tmpDir = "none" /\ workspace = {}
  /\ ops = <<>>
  /\ results = <<>> /\ migSummary = <<>>
  /\ \A k \in DOMAIN api : api[k].call # "create"

AbortedEarly == pc = "done" /\ exitCode = 1 /\ NoRepoWork

SecondRun == Len(runs) = 1

FirstRun == runs[1]

C13_Idempotence ==
  (SecondRun /\ ~forcePush /\ ~cfg.DryRun) =>
    \A j \in DOMAIN FirstRun :
      FirstRun[j].Result = "OK" =>
        /\ OpsOf(j) = {}
        /\ j \in DOMAIN results =>
             /\ results[j].Repo = FirstRun[j].Repo
             /\ results[j].Result = "SKIPPED: repo already present"
        /\ Completed => j \in DOMAIN results

C13_Witness ==
  /\ SecondRun /\ ~forcePush /\ ~cfg.DryRun
  /\ Completed
  /\ Len(FirstRun) = 2
  /\ FirstRun[1].Result = "OK"
  /\ FirstRun[2].Result = "ERROR: source not found"
  /\ results[1].Result = "SKIPPED: repo already present"
  /\ results[2].Result = "OK"

(***************************************************************************)
(* C14  Cancellation.  Once the context has fired during a batch, the      *)
(* call in flight aborts and every repository queued behind the current    *)
(* one is skipped: no further iteration begins and no further clone,       *)
(* createRepo or push is attempted.                                        *)
(***************************************************************************)
\* the context fired while migrateRepos was in its loop
FiredInBatch == ctx.done /\ ctx.pc \in {"loop", "clone", "create", "push"}

\* the context fired while a call of a real run was in flight
FiredInCall ==
  ctx.done /\ ctx.pc \in {"clone", "create", "push"} /\ ~cfg.DryRun

C14_Cancellation ==
  FiredInBatch =>
    /\ Len(snap) = ctx.started
    /\ Len(ops) <= ctx.calls + 1
    /\ \A k \in DOMAIN ops : k > ctx.calls => ~ops[k].ok

(***************************************************************************)
(* C15  Deadline.  When the deadline passes while the batch is in          *)
(* progress the run is aborted and a timeout is surfaced: the run does not *)
(* end with exit status 0, and the repository the deadline hit is not      *)
(* reported with the result of an ordinary clone or push failure.          *)
(***************************************************************************)
C15_Deadline ==
  (FiredInCall /\ pc = "done") =>
    /\ exitCode # 0
    /\ \A j \in DOMAIN results :
         results[j].ErrDetails \in {<<"signal: killed">>, DeadlineExceeded}
           => results[j].Result \notin {"ERROR: source not found",
                                        "ERROR: push"}

(***************************************************************************)
(* C16  Workspace lifecycle, as the specification states it: on every path *)
(* by which migrateRepos returns, the workspace and every mirror inside it *)
(* have been removed.                                                      *)
(***************************************************************************)
\* migrateRepos has returned
Returned == pc \in {"aggregate", "done"}

RemovalErrorPrinted ==
  \E k \in DOMAIN out : out[k][1] = "Error removing temporary directory:"

HasBody(text) ==
  \E p \in DOMAIN text : text[p] \in {JsonBody[1], PageBody[1]}

C18_BodiesOnlyInTrace ==
  ~cfg.Trace =>
    /\ \A k \in DOMAIN out : ~HasBody(out[k])
    /\ \A j \in DOMAIN results : ~HasBody(results[j].ErrDetails)
    /\ \A j \in DOMAIN summary : ~HasBody(summary[j].ErrDetails)

(***************************************************************************)
(* C19  Credential redaction.  The access tokens appear only in the URL    *)
(* handed to the real mirror clone and mirror push; the destination clone  *)
(* URL of every outcome and every dry-run preview holds the redacted form  *)
(* user:***@ and neither the source nor the destination token.             *)
(***************************************************************************)
\* the text holds an access token
HasToken(text) == Contains(text, cfg.SrcPAT) \/ Contains(text, cfg.DstPAT)

Redacted(text) == Contains(text, <<"user", ":", "***", "@">>)

\* the line is the preview of a git command
IsPreview(line) ==
  line[1] \in {"[DRY] git clone --mirror ", "[DRY] git push --mirror ",
               "[DRY] git push --mirror --force "}

C19_CredentialRedaction ==
  /\ \A k \in DOMAIN out :
       /\ ~HasToken(out[k])
       /\ IsPreview(out[k]) => Redacted(out[k])
  /\ \A j \in DOMAIN results :
       Redacted(results[j].DstClone) /\ ~HasToken(results[j].DstClone)
  /\ \A k \in DOMAIN ops :
       HasToken(ops[k].url) => ops[k].op \in {"clone", "push"}

(***************************************************************************)
(* C20  Redirects.  The catalog client never follows a redirect, and every *)
(* 3xx answer to the list call or to the create call is surfaced to the    *)
(* caller as an authentication failure; it never yields a catalog or a     *)
(* successful creation.                                                    *)
(***************************************************************************)
\* the answer is a redirect
IsRedirect(answer) ==
  answer.neterr = Nil /\ answer.status >= 300 /\ answer.status < 400

\* the error says that authentication failed
IsAuthFailure(err) ==
  err # Nil /\ err[1] = "authentication failed (received HTTP 302, "

C20_Redirects ==
  \A k \in DOMAIN api :
    IsRedirect(api[k].answer) =>
      /\ Do(api[k].answer) = api[k].answer
      /\ api[k].err # Nil
      /\ IsAuthFailure(api[k].err)

(***************************************************************************)
(* C21  Forced overwrite.  For a request whose destination existed at the  *)
(* start, with forcePush = true and dryRun = false: createRepo is never    *)
(* called, the mirror clone is made, the push that follows a successful    *)
(* clone carries --force, and the outcome is OK exactly when the clone and *)
(* the push both succeeded.                                                *)
(***************************************************************************)
\* the destination name request j resolves to
Target(j) ==
  LET n == selected[j].Name
  IN  IF n \in DOMAIN cfg.RepoMap THEN cfg.RepoMap[n] ELSE n

\* request j made a call of the given kind
Made(j, kind) == \E k \in OpsOf(j) : ops[k].op = kind

\* request j overwrites a destination that existed at the start
Forced(j) == Target(j) \in dstAtStart /\ cfg.ForcePush /\ ~cfg.DryRun

C21_ForcedOverwrite ==
  \A j \in DOMAIN results :
    Forced(j) =>
      /\ ~Made(j, "create")
      /\ Made(j, "clone")
      /\ Made(j, "push") <=> Called(j, "clone", TRUE)
      /\ \A k \in OpsOf(j) : ops[k].op = "push" => ops[k].force
      /\ results[j].Result = "OK" <=>
           (Called(j, "clone", TRUE) /\ Called(j, "push", TRUE))

C21_Witness ==
  /\ Completed
  /\ Len(results) = 2
  /\ Forced(1) /\ results[1].Result = "OK"
  /\ Forced(2) /\ results[2].Result = "ERROR: source not found"

(***************************************************************************)
(* C22  Fresh migration.  In a batch that is no dry run, over distinct     *)
(* candidates none of which exists in the destination, when every clone,   *)
(* create and push succeeds every outcome is OK, createRepo was called     *)
(* exactly once for each candidate, and the destination catalog afterwards *)
(* holds the destination name of every candidate.  In general an outcome   *)
(* is OK only if the clone and the push of its request both succeeded and  *)
(* its destination exists.                                                 *)
(***************************************************************************)
\* the candidates are pairwise distinct, and so are their destinations
DistinctCandidates ==
  \A j, k \in DOMAIN selected :
    j # k => selected[j].Name # selected[k].Name /\ Target(j) # Target(k)

\* no candidate has its destination in the catalog at the start
AllFresh == \A j \in DOMAIN selected : Target(j) \notin dstAtStart

\* every call made so far has succeeded
AllSucceeded == \A k \in DOMAIN ops : ops[k].ok

C22_FreshMigration ==
  /\ (Completed /\ ~cfg.DryRun /\ DistinctCandidates /\ AllFresh
        /\ AllSucceeded) =>
       /\ Len(results) = Len(selected)
       /\ \A j \in DOMAIN results :
            /\ results[j].Result = "OK"
            /\ Cardinality({k \in OpsOf(j) : ops[k].op = "create"}) = 1
            /\ Target(j) \in dstCatalog
  /\ \A j \in DOMAIN results :
       results[j].Result = "OK" =>
         /\ Called(j, "clone", TRUE)
         /\ Called(j, "push", TRUE)
         /\ Target(j) \in dstCatalog

C22_Witness ==
  /\ Completed /\ ~cfg.DryRun /\ DistinctCandidates /\ AllFresh
  /\ AllSucceeded
  /\ Len(results) = 2
  /\ dstAtStart = {}
  /\ dstCatalog = {NameA, NameAB}

(***************************************************************************)
(* C23  Batch completion.  Provided every external operation returns,      *)
(* every run that reaches migrateRepos eventually finishes, having         *)
(* processed each candidate once, and emits the full summary: the rows of  *)
(* the selection followed by one row for every candidate.                  *)
(***************************************************************************)
\* the run has ended and has printed a row for every candidate
FullSummary ==
  /\ pc = "done"
  /\ printed
  /\ Len(migSummary) = Len(selected)
  /\ summary = preSummary \o migSummary

C23_BatchCompletion == (pc = "mkTmp") ~> FullSummary

(***************************************************************************)
(* C24  Per-request step order.  Within one request the calls occur in the *)
(* order clone, create, push, each at most once; createRepo is called only *)
(* after the clone of this request succeeded and only when the destination *)
(* is not recorded as existing; the push is made only after the clone      *)
(* succeeded and when the destination exists; after a failed clone there   *)
(* is neither create nor push, after a failed create no push.              *)
(***************************************************************************)
\* the calls request j made before call k
Before(j, k) == {l \in OpsOf(j) : l < k}

\* the kinds of the calls in a set of calls
Kinds(K) == {ops[l].op : l \in K}

\* the existence map records the name when call k is made: it was in the
\* catalog at the start, or an earlier call created it
Recorded(n, k) ==
  \/ n \in dstAtStart
  \/ \E l \in 1..(k - 1) :
       ops[l].op = "create" /\ ops[l].ok /\ ops[l].name = n

C24_StepOrder ==
  \A k \in DOMAIN ops :
    LET o == ops[k]
        P == Before(o.req, k)
    IN  /\ o.op \in {"clone", "create", "push"}
        /\ \A l \in 1..(k - 1) : ops[l].req <= o.req
        /\ o.name = IF o.op = "clone" THEN selected[o.req].Name
                    ELSE Target(o.req)
        /\ o.op = "clone" => P = {}
        /\ o.op = "create" =>
             /\ Kinds(P) = {"clone"}
             /\ \A l \in P : ops[l].ok
             /\ ~Recorded(o.name, k)
        /\ o.op = "push" =>
             /\ Kinds(P) \in {{"clone"}, {"clone", "create"}}
             /\ \A l \in P : ops[l].ok
             /\ Recorded(o.name, k)
        /\ \A l \in P : ops[l].op # o.op

C24_Witness ==
  /\ Completed
  /\ Len(ops) = 4
  /\ ops[1].op = "clone" /\ ops[1].ok
  /\ ops[2].op = "create" /\ ops[2].ok
  /\ ops[3].op = "push" /\ ops[3].ok /\ ops[3].req = 1
  /\ ops[4].op = "clone" /\ ~ops[4].ok /\ ops[4].req = 2

(***************************************************************************)
(* C25  Error classification.  The result of every outcome of migrateRepos *)
(* is one of the seven results; a failed clone gives exactly "ERROR:       *)
(* source not found", a failed create exactly "ERROR: destination          *)
(* creation", a failed push exactly "ERROR: push", each with an error      *)
(* detail that is not empty; no outcome is appended with an empty result.  *)
(***************************************************************************)
Results ==
  {"OK", "DRY-RUN", "SKIPPED: repo already present",
   "SKIPPED: missing destination", "ERROR: source not found",
   "ERROR: destination creation", "ERROR: push"}

\* the result of a request in which the call of the given kind failed
ErrorOf(kind) ==
  CASE kind = "clone" -> "ERROR: source not found"
    [] kind = "create" -> "ERROR: destination creation"
    [] kind = "push" -> "ERROR: push"

C25_ErrorClassification ==
  /\ \A j \in DOMAIN results :
       /\ results[j].Result \in Results
       /\ \A kind \in {"clone", "create", "push"} :
            /\ Called(j, kind, FALSE) =>
                 /\ results[j].Result = ErrorOf(kind)
                 /\ results[j].ErrDetails # <<>>
            /\ results[j].Result = ErrorOf(kind) => Called(j, kind, FALSE)
       /\ results[j].ErrDetails # <<>> =>
            \E kind \in {"clone", "create", "push"} : Called(j, kind, FALSE)
  /\ \A k \in DOMAIN ops :
       ~ops[k].ok => (ops[k].req \in DOMAIN results \/ ops[k].req = i)

C25_Witness ==
  /\ Completed
  /\ Len(results) = 2
  /\ results[1].Result = "ERROR: destination creation"
  /\ results[1].ErrDetails # <<>>
  /\ results[2].Result = "ERROR: push"
  /\ results[2].ErrDetails = <<"exit status ", "1">>

(***************************************************************************)
(* C26  Shared existence map.  After a request has created destination X,  *)
(* every later request of the batch that targets X finds X existing, so    *)
(* createRepo succeeds at most once for a destination name in a batch and  *)
(* is never called for a name the map records as existing.                 *)
(***************************************************************************)
\* call k is a successful createRepo
Created(k) == ops[k].op = "create" /\ ops[k].ok

C26_SharedExistenceMap ==
  /\ \A k \in DOMAIN ops :
       Created(k) =>
         /\ ops[k].name \in dstExists
         /\ \A j \in DOMAIN snap :
              (j > ops[k].req /\ Target(j) = ops[k].name) => snap[j]
         /\ \A l \in DOMAIN ops :
              (Created(l) /\ ops[l].name = ops[k].name) => l = k
  /\ \A k \in DOMAIN ops :
       ops[k].op = "create" =>
         /\ ops[k].name \notin dstAtStart
         /\ \A l \in 1..(k - 1) : Created(l) => ops[l].name # ops[k].name

C26_Witness ==
  /\ Len(snap) = 2
  /\ Len(ops) >= 2
  /\ Created(2) /\ ops[2].req = 1 /\ ops[2].name = NameAB
  /\ Target(2) = NameAB
  /\ snap[2]
  /\ NameAB \notin dstAtStart

(***************************************************************************)
(* C27  "SKIPPED: missing destination" does not occur on the success path: *)
(* in no run, dry run or not, does a request whose clone step and create   *)
(* step raised no error end with that result.                              *)
(***************************************************************************)
C27_NoMissingDestination ==
  \A j \in DOMAIN results :
    (~Called(j, "clone", FALSE) /\ ~Called(j, "create", FALSE)) =>
      results[j].Result # "SKIPPED: missing destination"

(***************************************************************************)
(* C28  Outcomes are append-only.  At every step the sequence of outcomes  *)
(* of migrateRepos is a prefix of the sequence it returns in the end: a    *)
(* row, once appended, is never changed, removed or moved, and a request   *)
(* appends its row only when it reaches a terminal state.                  *)
(***************************************************************************)
C28_AppendOnly ==
  [][/\ IsPrefix(results, results')
     /\ Len(results') <= Len(results) + 1
     /\ Len(results') = Len(results) + 1 =>
          /\ results'[Len(results')] = sum'
          /\ sum'.Result \in Results
          /\ pc \in {"loop", "clone", "create", "push"}
          /\ pc' = "loop" /\ i' = i + 1
     /\ (pc = "loop" /\ pc' = "aggregate") => migSummary' = results
     /\ pc \in {"aggregate", "done"} =>
          results' = results /\ migSummary' = migSummary
  ]_vars

C28_Witness ==
  /\ Completed
  /\ Len(results) = 2
  /\ migSummary = results
  /\ results[1].Result = "ERROR: push"
  /\ results[2].Result = "OK"

(***************************************************************************)
(* C29  Destination-name resolution.  The destination name of a request is *)
(* the mapped name when the remap table has an entry for the source name,  *)
(* and the source name otherwise.  The existence snapshot, createRepo, the *)
(* push URL and the destination URLs of the outcome use the destination    *)
(* name; the clone URL and the repository name of the outcome use the      *)
(* source name.                                                            *)
(***************************************************************************)
\* the source name of request j
Source(j) == selected[j].Name

\* the text ends with the name
EndsWith(text, n) ==
  Len(text) >= Len(n) /\ SubSeq(text, Len(text) - Len(n) + 1, Len(text)) = n

C29_NameResolution ==
  /\ \A j \in DOMAIN snap :
       snap[j] <=>
         \/ Target(j) \in dstAtStart
         \/ \E k \in DOMAIN ops :
              Created(k) /\ ops[k].req < j /\ ops[k].name = Target(j)
  /\ \A k \in DOMAIN ops :
       /\ ops[k].op = "clone" =>
            /\ ops[k].name = Source(ops[k].req)
            /\ ops[k].url = SrcURL(Source(ops[k].req))
       /\ ops[k].op = "create" => ops[k].name = Target(ops[k].req)
       /\ ops[k].op = "push" =>
            /\ ops[k].name = Target(ops[k].req)
            /\ ops[k].url = DstURL(Target(ops[k].req))
  /\ \A j \in DOMAIN results :
       /\ results[j].Repo = Source(j)
       /\ results[j].DstClone = DstURLRedacted(Target(j))
       /\ results[j].DstWebURL = DstWebURL(Target(j))
       /\ EndsWith(results[j].DstClone, Target(j))

C29_Witness ==
  /\ Completed
  /\ NameA \in DOMAIN cfg.RepoMap
  /\ results[1].Repo = NameA
  /\ EndsWith(results[1].DstWebURL, NameAB)
  /\ \E k \in DOMAIN ops :
       /\ ops[k].op = "push" /\ ops[k].req = 1 /\ ops[k].name = NameAB
       /\ EndsWith(ops[k].url, NameAB)
  /\ \E k \in DOMAIN ops :
       /\ ops[k].op = "clone" /\ ops[k].req = 1
       /\ EndsWith(ops[k].url, <<"/">> \o NameA)

(***************************************************************************)
(* C30  Workspace subdirectories.  Within one batch every mirror clone     *)
(* targets the subdirectory named from its repository name, and no mirror  *)
(* clone is started into a subdirectory that an earlier clone of the batch *)
(* has populated, whatever the candidate list, also one that repeats a     *)
(* name.                                                                   *)
(***************************************************************************)
\* call k is a clone into the subdirectory of the name
ClonesInto(k, n) == ops[k].op = "clone" /\ ops[k].name = n

C30_WorkspaceSubdirs ==
  \A k \in DOMAIN ops :
    ops[k].op = "clone" =>
      /\ ops[k].name = Source(ops[k].req)
      /\ \A l \in 1..(k - 1) : ~(ClonesInto(l, ops[k].name) /\ ops[l].ok)

(***************************************************************************)
(* C31  Aggregation: every non-interactive run that ends with at least one *)
(* outcome (a row for a name not found, or a row of the orchestrator) and  *)
(* with report formats configured has built exactly one batch result: the  *)
(* rows of the names not found followed by the rows of the orchestrator,   *)
(* stamped with start time, end time and host name, and handed to the      *)
(* report renderer.  This includes the run in which no listed name is in   *)
(* the source.                                                             *)
(***************************************************************************)
\* the run has ended normally with at least one outcome
EndedWithOutcomes ==
  pc = "done" /\ exitCode = 0 /\ Len(preSummary) + Len(migSummary) > 0

C31_Aggregation ==
  (EndedWithOutcomes /\ cfg.ReportFormats # <<>>) =>
    /\ Len(report) = 1
    /\ report[1].Summaries = preSummary \o migSummary
    /\ report[1].StartTime = "startTime"
    /\ report[1].EndTime = "endTime"
    /\ report[1].Hostname = "hostname"

(***************************************************************************)
(* C38  Report-format consistency: a run whose report formats passed the   *)
(* validation at start-up never prints, at report generation, the error    *)
(* of a format that is not supported.  (A run whose formats do not pass    *)
(* ends in Execute, so every line written at report generation belongs to  *)
(* a run whose formats passed.)                                            *)
(***************************************************************************)
\* the line reports a format that generateReport does not know
IsUnsupportedAtGeneration(line) ==
  HasPrefix(line, <<"Report generation error:",
                    "formato report non supportato: ">>)

C38_FormatConsistency ==
  \A k \in DOMAIN out : ~IsUnsupportedAtGeneration(out[k])

(***************************************************************************)
(* C32  parseSelection(sel, max): on success the result is a strictly      *)
(* increasing sequence of zero-based indices in 0..max-1 whose set is the  *)
(* set of the positions named by the comma-separated elements (a 1-based   *)
(* number, or an inclusive range a-b), whatever their order, repetitions   *)
(* and overlaps; if a non-empty element is malformed, names a position     *)
(* below 1 or above max, or is a range with a > b, the call returns an     *)
(* error and no indices.                                                   *)
(***************************************************************************)
\* the elements of the selection that are not blank
Elements(sel) ==
  {TrimSpace(Split(sel, ",")[k]) : k \in DOMAIN Split(sel, ",")} \ {<<>>}

\* e is the range a-b, blanks around the two numbers allowed
IsRange(e, a, b) ==
  \E k \in DOMAIN e :
    /\ e[k] = "-"
    /\ TrimSpace(SubSeq(e, 1, k - 1)) = Itoa(a)
    /\ TrimSpace(SubSeq(e, k + 1, Len(e))) = Itoa(b)

\* the positions of 1..max that the element names
Named(e, max) ==
  {p \in 1..max :
     \/ e = Itoa(p)
     \/ \E a, b \in 1..max : a <= p /\ p <= b /\ IsRange(e, a, b)}

\* the element is a number or a range a-b with 1 <= a <= b <= max
WellFormed(e, max) == Named(e, max) # {}

C32_ParseSelection ==
  parse.pc = "returned" =>
    LET es == Elements(parse.sel)
        idx == parse.idx
    IN  IF \A e \in es : WellFormed(e, parse.max)
        THEN /\ parse.err = Nil
             /\ \A k \in DOMAIN idx : idx[k] \in 0..(parse.max - 1)
             /\ \A k \in 1..(Len(idx) - 1) : idx[k] < idx[k + 1]
             /\ {idx[k] + 1 : k \in DOMAIN idx} =
                  UNION {Named(e, parse.max) : e \in es}
        ELSE parse.err # Nil /\ idx = <<>>

\* "2,1-2" of two: out of order and overlapping, and both indices returned
C32_Witness ==
  /\ parse.pc = "returned"
  /\ parse.sel = <<"2", ",", "1", "-", "2">>
  /\ parse.max = 2
  /\ parse.idx = <<0, 1>>
  /\ parse.err = Nil

(***************************************************************************)
(* C33  Selection-mode precedence.  When a run has both a non-empty name   *)
(* list and a filter, the list alone selects: the candidates are the       *)
(* listed names that the source holds, so an entry that the filter matches *)
(* but the list does not name is no candidate, and the filter is never     *)
(* compiled, so a malformed filter does not end the run.                   *)
(***************************************************************************)
\* the run was ended by the error of regexp.Compile
EndedByFilter ==
  \E k \in DOMAIN out : HasPrefix(out[k], <<"Errore:", "invalid regex: ">>)

\* the name is a candidate
IsCandidate(n) == \E k \in DOMAIN selected : selected[k].Name = n

C33_ListPrecedence ==
  (cfg.RepoList # <<>> /\ cfg.Filter # <<>>) =>
    /\ ~EndedByFilter
    /\ SelectionDone =>
         /\ RepoNames(selected) = SelectSeq(cfg.RepoList, InSrc)
         /\ \A k \in DOMAIN srcCatalog :
              Listed(srcCatalog[k]) = 0 => ~IsCandidate(srcCatalog[k])

\* the filter matches "a" and "ab", the list names "ab" only, and the run
\* has finished with "ab" as its only candidate
C33_Witness ==
  /\ Completed
  /\ cfg.Filter = <<"a">>
  /\ cfg.RepoList = <<NameAB>>
  /\ InSrc(NameA) /\ MatchesFilter(NameA)
  /\ RepoNames(selected) = <<NameAB>>
  /\ ops # <<>>

(***************************************************************************)
(* C34  No rollback of creation.  The orchestrator never deletes a         *)
(* destination repository.  When createRepo succeeds for a request and the *)
(* push that follows fails, the outcome is "ERROR: push" and the created   *)
(* repository stays in the destination catalog and in the existence map;   *)
(* a later run with forcePush = false reports the repository as "SKIPPED:  *)
(* repo already present" and makes no clone, create or push for it.        *)
(***************************************************************************)
\* request j created its destination and then failed to push
CreatedNotPushed(j) == Called(j, "create", TRUE) /\ Called(j, "push", FALSE)

C34_NoRollback ==
  /\ dstAtStart \subseteq dstCatalog
  /\ \A k \in DOMAIN ops :
       Created(k) => ops[k].name \in (dstCatalog \cap dstExists)
  /\ \A j \in DOMAIN results :
       CreatedNotPushed(j) =>
         /\ results[j].Result = "ERROR: push"
         /\ Target(j) \in (dstCatalog \cap dstExists)
  /\ (SecondRun /\ ~forcePush /\ ~cfg.DryRun) =>
       \A j \in DOMAIN FirstRun :
         FirstRun[j].Result = "ERROR: push" =>
           /\ OpsOf(j) = {}
           /\ j \in DOMAIN selected => Target(j) \in dstCatalog
           /\ j \in DOMAIN results =>
                /\ results[j].Repo = FirstRun[j].Repo
                /\ results[j].Result = "SKIPPED: repo already present"
           /\ Completed => j \in DOMAIN results

\* the first run created "a" and failed to push it; the second run has
\* finished and has skipped it
C34_Witness ==
  /\ SecondRun /\ ~forcePush /\ ~cfg.DryRun
  /\ Completed
  /\ Len(FirstRun) >= 1 /\ Len(results) >= 1
  /\ FirstRun[1].Result = "ERROR: push"
  /\ results[1].Result = "SKIPPED: repo already present"
  /\ ops = <<>>

(***************************************************************************)
(* C35  Existence-map soundness.  While a batch runs, and no other party   *)
(* changing the destination, the names the existence map holds as existing *)
(* are the names of the destination catalog.  An entry becomes true only   *)
(* with a successful createRepo for its name, no entry is ever cleared,    *)
(* and no entry changes in dry-run or by a failed create: the map is the   *)
(* catalog as it was listed plus the names created so far, in every state. *)
(***************************************************************************)
\* the destination has been listed and the batch has not been abandoned
InBatch ==
  \/ pc \in {"mkTmp", "loop", "clone", "create", "push", "aggregate"}
  \/ pc = "done" /\ exitCode = 0 /\ selected # <<>>

\* the names for which a createRepo has succeeded so far
CreatedNames == {ops[k].name : k \in {l \in DOMAIN ops : Created(l)}}

SelectedNone ==
  /\ pc \notin {"Execute", "getSrc", "select"}
  /\ \E k \in DOMAIN api : api[k].call = "list source" /\ api[k].err = Nil
  /\ ~BadFilter
  /\ ExpectedCandidates = <<>>

C36_EmptySelection ==
  SelectedNone =>
    /\ pc = "done" /\ exitCode = 0
    /\ selected = <<>>
    /\ NoRepoWork
    /\ \A k \in DOMAIN api : api[k].call = "list source"
    /\ dstExists = {} /\ dstCatalog = dstAtStart
    /\ NamesOf(preSummary) = ExpectedNotFound
    /\ preSummary # <<>> => (printed /\ summary = preSummary)

\* a list whose names are all missing from a source that is not empty:
\* the run has ended and has printed their rows
C36_Witness ==
  /\ SelectedNone
  /\ srcCatalog # <<>>
  /\ Len(preSummary) = 2
  /\ printed /\ summary = preSummary
  /\ pc = "done"

(***************************************************************************)
(* C37  Wizard confirmation gate.  In wizard mode no workspace is created  *)
(* and no clone, createRepo or push is made unless the operator answered   *)
(* the final confirmation prompt with a yes; on any other answer the run   *)
(* ends with the destination unchanged and without outcomes.  Force is     *)
(* applied only if the forcePush flag was set or the operator answered the *)
(* force prompt with a yes, and that prompt is asked only when a selected  *)
(* repository already exists in the destination.                           *)
(***************************************************************************)
\* the answers that mean yes
Yes == {<<"s">>, <<"s", "i">>, <<"y">>, <<"y", "e", "s">>}

\* the operator was asked the prompt and answered it with a yes
SaidYes(prompt, ans) ==
  prompt \in wiz.asked /\ TrimSpace(ToLower(ans)) \in Yes

\* the orchestrator has been entered or has left a trace
BatchStarted ==
  \/ pc \in {"mkTmp", "loop", "clone", "create", "push", "aggregate"}
  \/ ~NoRepoWork
  \/ migErr \/ printed \/ report # <<>>

C37_WizardGate ==
  cfg.Wizard =>
    /\ BatchStarted => SaidYes("confirm", wiz.confirm)
    /\ ("confirm" \in wiz.asked /\ ~SaidYes("confirm", wiz.confirm)) =>
         /\ pc = "done" /\ exitCode = 0
         /\ dstCatalog = dstAtStart
         /\ NoRepoWork
         /\ summary = <<>> /\ ~printed /\ report = <<>>
    /\ (\/ \E k \in DOMAIN ops : ops[k].force
        \/ pc \notin {"Execute", "wizGetSrc", "wizSelect", "wizGetDst",
                      "wizForce"} /\ forcePush) =>
         (cfg.ForcePush \/ SaidYes("force", wiz.force))
    /\ "force" \in wiz.asked =>
         /\ ~cfg.ForcePush
         /\ \E k \in DOMAIN selected : selected[k].Name \in dstAtStart

\* the flag was off, the operator said yes to the force prompt and to the
\* confirmation, and a forced push has been made
C37_Witness ==
  /\ cfg.Wizard /\ ~cfg.ForcePush
  /\ SaidYes("force", wiz.force) /\ SaidYes("confirm", wiz.confirm)
  /\ \E k \in DOMAIN ops : ops[k].op = "push" /\ ops[k].force /\ ops[k].ok
  /\ pc = "done"

=============================================================================
